---- MODULE Spec2Model ----
(***************************************************************************)
(* Oblivious string operations of fhe_strings over encrypted ASCII         *)
(* strings.  A ciphertext is modelled by the value it decrypts to: the     *)
(* homomorphic primitives of tfhe-rs compute on those values, so a         *)
(* RadixCiphertext of b blocks is a number modulo 2^(2b), a BooleanBlock   *)
(* is a BOOLEAN, and an FheString is its sequence of bytes (0..127,        *)
(* NUL = 0) together with its public `padded` flag.  The wide integer that *)
(* packs a string (to_uint) is kept as its base-256 digits, most           *)
(* significant first, because it does not fit a machine integer.  A radix  *)
(* of IndexBlocks blocks (32 bits) is kept as its two's-complement         *)
(* representative: a negative number x stands for 2^32 + x.                *)
(***************************************************************************)
EXTENDS Integers, Sequences, FiniteSets, TLC

\* ------------------------------------------------------------------ bounds
MaxStrLen == 3
MaxPatLen == 2
MaxPad == 2

\* --------------------------------------------------------------- constants
NUL == 0
\* Radix blocks and bits of one character, and radix blocks of a length,
\* index or shift amount.
CharBlocks == 4
CharBits == 8
IndexBlocks == 16

\* Characters the inputs are drawn from: two letters for the pattern and
\* comparison operations; the five ASCII whitespace bytes, the vertical tab
\* (a control byte that is not ASCII whitespace) and a letter for the
\* trimming operations.
Letters == {97, 98}
Whitespace == {32, 9, 10, 12, 13}
TrimChars == Whitespace \cup {11, 97}

VARIABLES str, pat, op, args, res, split_iter

vars == <<str, pat, op, args, res, split_iter>>

\* ----------------------------------------------------------------- helpers
Min(a, b) == IF a <= b THEN a ELSE b

\* All sequences over S of length 0..n
SeqsUpTo(S, n) == UNION {[1..k -> S] : k \in 0..n}

Nulls(n) == [i \in 1..n |-> NUL]

\* Iterator::skip(n) on a slice iterator
Skip(chars, n) == SubSeq(chars, n + 1, Len(chars))

\* &chars[..n]
Take(chars, n) == SubSeq(chars, 1, n)

\* ------------------------------------------------- FheString (ciphertext)
FheString(chars, padded) == [chars |-> chars, padded |-> padded]

\* FheString::new(ck, s, Some(padding)): the bytes of s followed by `padding`
\* encrypted NULs.
FheString_new(s, padding) ==
    FheString(s \o Nulls(padding), padding > 0 \/ s = <<>>)

\* FheString::empty(): no characters, not padded
FheString_empty == FheString(<<>>, FALSE)

\* ClientKey::decrypt_ascii: the non-NUL bytes, in order
decrypt_ascii(s) == SelectSeq(s.chars, LAMBDA c : c # NUL)

\* FheString::append_null: push one NUL and mark the string padded
append_null(s) == FheString(Append(s.chars, NUL), TRUE)

set_is_padded(s, flag) == FheString(s.chars, flag)

\* FheString::to_uint: chars[0] is the most significant byte
to_uint(s) == s.chars

\* FheString::from_uint: the bytes of the integer, flagged unpadded
from_uint(uint) == FheString(uint, FALSE)

\* ---------------------------------------------------- length / emptiness
RECURSIVE CountNonNull(_)
CountNonNull(chars) ==
    IF chars = <<>> THEN 0
    ELSE (IF Head(chars) # NUL THEN 1 ELSE 0) + CountNonNull(Tail(chars))

\* ServerKey::len
len(s) ==
    IF s.padded
    THEN [kind |-> "Padding", val |-> CountNonNull(s.chars)]
    ELSE [kind |-> "NoPadding", val |-> Len(s.chars)]

\* ServerKey::is_empty
is_empty(s) ==
    IF s.padded
    THEN [kind |-> "Padding",
          val |-> (Len(s.chars) = 0 \/ s.chars[1] = NUL)
                     /\ CountNonNull(s.chars) = 0]
    ELSE [kind |-> "NoPadding", val |-> Len(s.chars) = 0]

\* The length as the IndexBlocks-block radix the callers turn it into:
\*   match self.len(s) { Padding(enc) => enc,
\*                       NoPadding(val) => create_trivial_radix(val as u32, 16) }
len_radix(s) == len(s).val

\* ------------------------------------------------------ equality kernels
\* ServerKey::asciis_eq: zip stops at the shorter side; the OR of the XORs
\* of the paired bytes is 0 exactly when every pair is equal.
asciis_eq(str_chars, pat_chars) ==
    \A i \in 1..Min(Len(str_chars), Len(pat_chars)) : str_chars[i] = pat_chars[i]

\* ServerKey::asciis_eq_ignore_pat_pad: AND over the zipped pairs of
\* (str_char == pat_char) | (pat_char == 0)
asciis_eq_ignore_pat_pad(str_chars, pat_chars) ==
    \A i \in 1..Min(Len(str_chars), Len(pat_chars)) :
        str_chars[i] = pat_chars[i] \/ pat_chars[i] = NUL

\* ----------------------------------------------------------- bit utilities
RECURSIVE Pow2(_)
Pow2(n) == IF n = 0 THEN 1 ELSE 2 * Pow2(n - 1)

\* pad_ciphertexts_lsb with the zero blocks put on the most significant side
pad_ciphertexts_msb(lhs, rhs) ==
    IF Len(lhs) < Len(rhs) THEN <<Nulls(Len(rhs) - Len(lhs)) \o lhs, rhs>>
    ELSE IF Len(lhs) > Len(rhs) THEN <<lhs, Nulls(Len(lhs) - Len(rhs)) \o rhs>>
    ELSE <<lhs, rhs>>

\* ServerKey::pad_ciphertexts_lsb: the shorter integer gets trivial zero
\* blocks on its least significant side; returns both.
pad_ciphertexts_lsb(lhs, rhs) ==
    IF Len(lhs) < Len(rhs) THEN <<lhs \o Nulls(Len(rhs) - Len(lhs)), rhs>>
    ELSE IF Len(lhs) > Len(rhs) THEN <<lhs, rhs \o Nulls(Len(lhs) - Len(rhs))>>
    ELSE <<lhs, rhs>>

\* ServerKey::pad_or_trim_ciphertext on a radix of IndexBlocks blocks:
\* trimming to fewer blocks keeps the low bits, extending adds zero blocks
\* on the most significant side and keeps the value.
pad_or_trim_ciphertext(cipher, blocks) ==
    IF blocks < IndexBlocks
    THEN cipher % Pow2((blocks * CharBits) \div CharBlocks)
    ELSE cipher

\* Unsigned cipher >= scalar for a radix kept as its two's-complement
\* representative (scalar_ge_parallelized)
scalar_ge(cipher, scalar) == cipher < 0 \/ cipher >= scalar

\* uint << 8*k and uint >> 8*k on the base-256 digits, for k <= Len(uint)
ShlBytes(uint, k) == Skip(uint, k) \o Nulls(k)

ShrBytes(uint, k) == Nulls(k) \o Take(uint, Len(uint) - k)

\* ServerKey::left_shift_chars.  tfhe-rs shifts by the amount modulo the
\* bit width; that result is only selected when the amount is below the bit
\* width, where it is the plain shift.
left_shift_chars(s, shift) ==
    LET uint == to_uint(s)
        blocks == CharBlocks * Len(uint)
        shift_bits == pad_or_trim_ciphertext(shift * 8, blocks)
        bit_len == Len(s.chars) * CharBits
        shift_ge_than_str == scalar_ge(shift_bits, bit_len)
    IN  from_uint(IF shift_ge_than_str THEN Nulls(Len(uint))
                  ELSE ShlBytes(uint, shift_bits \div CharBits))

\* ServerKey::right_shift_chars
right_shift_chars(s, shift) ==
    LET uint == to_uint(s)
        blocks == CharBlocks * Len(uint)
        shift_bits == pad_or_trim_ciphertext(shift * 8, blocks)
        bit_len == Len(s.chars) * CharBits
        shift_ge_than_str == scalar_ge(shift_bits, bit_len)
    IN  from_uint(IF shift_ge_than_str THEN Nulls(Len(uint))
                  ELSE ShrBytes(uint, shift_bits \div CharBits))

\* Comparison of two wide integers of the same number of digits
RECURSIVE UintLt(_, _)
UintLt(a, b) ==
    IF a = <<>> \/ b = <<>> THEN FALSE
    ELSE IF Head(a) # Head(b) THEN Head(a) < Head(b)
    ELSE UintLt(Tail(a), Tail(b))

\* ------------------------------------------------- equality and ordering
\* ServerKey::eq_length_checks: Some(val) or None
eq_length_checks(lhs, rhs) ==
    LET lhs_len == Len(lhs.chars)
        rhs_len == Len(rhs.chars)
    IN  IF lhs_len = 0 \/ (lhs.padded /\ lhs_len = 1)
        THEN [some |-> TRUE, val |-> is_empty(rhs).val]
        ELSE IF rhs_len = 0 \/ (rhs.padded /\ rhs_len = 1)
        THEN [some |-> TRUE,
              val |-> IF is_empty(lhs).kind = "Padding" THEN is_empty(lhs).val
                      ELSE FALSE]
        ELSE IF (~lhs.padded /\ ~rhs.padded) /\ lhs_len # rhs_len
        THEN [some |-> TRUE, val |-> FALSE]
        ELSE IF ((~lhs.padded /\ rhs.padded) /\ rhs_len <= lhs_len)
                \/ ((~rhs.padded /\ lhs.padded) /\ lhs_len <= rhs_len)
        THEN [some |-> TRUE, val |-> FALSE]
        ELSE [some |-> FALSE, val |-> FALSE]

\* eq without the NUL appended to a strictly shorter unpadded side
eq_NoNullAppended(lhs, rhs) ==
    IF eq_length_checks(lhs, rhs).some THEN eq_length_checks(lhs, rhs).val
    ELSE asciis_eq(lhs.chars, rhs.chars)

\* ServerKey::eq
eq(lhs, rhs) ==
    LET lhs_len == Len(lhs.chars)
        rhs_len == Len(rhs.chars)
        lhs_chars == IF ~lhs.padded /\ lhs_len < rhs_len - 1
                     THEN Append(lhs.chars, NUL) ELSE lhs.chars
        rhs_chars == IF ~rhs.padded /\ rhs_len < lhs_len - 1
                     THEN Append(rhs.chars, NUL) ELSE rhs.chars
    IN  IF eq_length_checks(lhs, rhs).some THEN eq_length_checks(lhs, rhs).val
        ELSE asciis_eq(lhs_chars, rhs_chars)

\* ServerKey::ne
ne(lhs, rhs) == eq(lhs, rhs) # TRUE

\* ServerKey::lt
lt(lhs, rhs) ==
    LET u == pad_ciphertexts_lsb(to_uint(lhs), to_uint(rhs))
    IN  UintLt(u[1], u[2])

\* ServerKey::gt
gt(lhs, rhs) ==
    LET u == pad_ciphertexts_lsb(to_uint(lhs), to_uint(rhs))
    IN  UintLt(u[2], u[1])

\* ServerKey::le
le(lhs, rhs) ==
    LET u == pad_ciphertexts_lsb(to_uint(lhs), to_uint(rhs))
    IN  ~UintLt(u[2], u[1])

\* ServerKey::ge
ge(lhs, rhs) ==
    LET u == pad_ciphertexts_lsb(to_uint(lhs), to_uint(rhs))
    IN  ~UintLt(u[1], u[2])

\* ---------------------------------------------------------- pattern engine
\* The half-open range a..b as the sequence of its values, in order
RangeSeq(a, b) == [i \in 1..(b - a) |-> a + i - 1]

Reverse(seq) == [i \in 1..Len(seq) |-> seq[Len(seq) + 1 - i]]

\* length_checks taking a padded string to hold as many characters as its
\* capacity
length_checks_PaddedAsUnpadded(s, p) ==
    LET pat_len == Len(p.chars)
        str_len == Len(s.chars)
    IN  IF pat_len = 0 \/ (p.padded /\ pat_len = 1)
        THEN [kind |-> "Clear", val |-> TRUE]
        ELSE IF str_len = 0 \/ (s.padded /\ str_len = 1)
        THEN (IF is_empty(p).kind = "Padding"
              THEN [kind |-> "Cipher", val |-> is_empty(p).val]
              ELSE [kind |-> "Clear", val |-> FALSE])
        ELSE IF ~p.padded /\ str_len < pat_len
        THEN [kind |-> "Clear", val |-> FALSE]
        ELSE [kind |-> "None", val |-> FALSE]

\* ServerKey::length_checks: IsMatch::{Clear(bool), Cipher(ct), None}
length_checks(s, p) ==
    LET pat_len == Len(p.chars)
        str_len == Len(s.chars)
    IN  IF pat_len = 0 \/ (p.padded /\ pat_len = 1)
        THEN [kind |-> "Clear", val |-> TRUE]
        ELSE IF str_len = 0 \/ (s.padded /\ str_len = 1)
        THEN (IF is_empty(p).kind = "Padding"
              THEN [kind |-> "Cipher", val |-> is_empty(p).val]
              ELSE [kind |-> "Clear", val |-> FALSE])
        ELSE IF ~p.padded /\ ~s.padded /\ str_len < pat_len
        THEN [kind |-> "Clear", val |-> FALSE]
        ELSE IF ~p.padded /\ s.padded /\ str_len <= pat_len
        THEN [kind |-> "Clear", val |-> FALSE]
        ELSE [kind |-> "None", val |-> FALSE]

\* ServerKey::ends_with_cases: the string view, the pattern view and the
\* start indexes to compare at
ends_with_cases(s, p) ==
    LET pat_len == Len(p.chars)
        str_len == Len(s.chars)
    IN  IF ~s.padded /\ ~p.padded
        THEN [str_chars |-> s.chars, pat_chars |-> p.chars,
              range |-> RangeSeq(str_len - pat_len, str_len - pat_len + 1)]
        ELSE IF s.padded /\ ~p.padded
        THEN [str_chars |-> Take(s.chars, str_len - 1),
              pat_chars |-> Append(p.chars, NUL),
              range |-> RangeSeq(0, (str_len - 1) - pat_len + 1)]
        ELSE IF ~s.padded /\ p.padded
        THEN (IF pat_len - 1 > str_len
              THEN [str_chars |-> Append(s.chars, NUL), pat_chars |-> p.chars,
                    range |-> RangeSeq(0, str_len + 1)]
              ELSE [str_chars |-> Append(s.chars, NUL),
                    pat_chars |-> Take(p.chars, pat_len - 1),
                    range |-> RangeSeq(str_len - (pat_len - 1),
                                       str_len - (pat_len - 1) + pat_len)])
        ELSE [str_chars |-> s.chars, pat_chars |-> p.chars,
              range |-> RangeSeq(0, str_len)]

\* contains_cases with the last alignment of an unpadded string against a
\* padded pattern left out
contains_cases_LastLeftOut(s, p) ==
    LET pat_len == Len(p.chars)
        str_len == Len(s.chars)
    IN  IF ~p.padded
        THEN [str_chars |-> s.chars, pat_chars |-> p.chars,
              range |-> RangeSeq(0, (str_len - pat_len)
                                       - (IF s.padded THEN 1 ELSE 0) + 1)]
        ELSE IF s.padded
        THEN [str_chars |-> s.chars, pat_chars |-> Take(p.chars, pat_len - 1),
              range |-> RangeSeq(0, str_len - 1)]
        ELSE [str_chars |-> Append(s.chars, NUL),
              pat_chars |-> Take(p.chars, pat_len - 1),
              range |-> RangeSeq(0, str_len - 1)]

\* ServerKey::contains_cases
contains_cases(s, p) ==
    LET pat_len == Len(p.chars)
        str_len == Len(s.chars)
    IN  IF ~p.padded
        THEN [str_chars |-> s.chars, pat_chars |-> p.chars,
              range |-> RangeSeq(0, (str_len - pat_len)
                                       - (IF s.padded THEN 1 ELSE 0) + 1)]
        ELSE IF s.padded
        THEN [str_chars |-> s.chars, pat_chars |-> Take(p.chars, pat_len - 1),
              range |-> RangeSeq(0, str_len - 1)]
        ELSE [str_chars |-> Append(s.chars, NUL),
              pat_chars |-> Take(p.chars, pat_len - 1),
              range |-> RangeSeq(0, str_len)]

\* The per-alignment match bit of compare_shifted, compare_shifted_index and
\* compare_shifted_strip: the pattern view against the string view skipped
\* by `start`
is_matched(str_chars, pat_chars, start, ignore_pat_pad) ==
    IF ignore_pat_pad
    THEN asciis_eq_ignore_pat_pad(Skip(str_chars, start), pat_chars)
    ELSE asciis_eq(Skip(str_chars, start), pat_chars)

\* ServerKey::compare_shifted: OR of the match bits over the start indexes
compare_shifted(str_chars, pat_chars, iter, ignore_pat_pad) ==
    \E k \in 1..Len(iter) : is_matched(str_chars, pat_chars, iter[k], ignore_pat_pad)

\* ServerKey::contains
contains(s, p) ==
    LET c == contains_cases(s, p)
    IN  IF length_checks(s, p).kind # "None" THEN length_checks(s, p).val
        ELSE compare_shifted(c.str_chars, c.pat_chars, c.range, p.padded)

\* starts_with without the NUL appended to a short unpadded string
starts_with_NoNullAppended(s, p) ==
    IF length_checks(s, p).kind # "None" THEN length_checks(s, p).val
    ELSE IF ~p.padded THEN asciis_eq(s.chars, p.chars)
    ELSE asciis_eq_ignore_pat_pad(s.chars, Take(p.chars, Len(p.chars) - 1))

\* ServerKey::starts_with
starts_with(s, p) ==
    LET pat_len == Len(p.chars)
        str_len == Len(s.chars)
        pat_chars == Take(p.chars, pat_len - 1)
        str_chars == IF ~s.padded /\ str_len < pat_len - 1
                     THEN Append(s.chars, NUL) ELSE s.chars
    IN  IF length_checks(s, p).kind # "None" THEN length_checks(s, p).val
        ELSE IF ~p.padded THEN asciis_eq(s.chars, p.chars)
        ELSE asciis_eq_ignore_pat_pad(str_chars, pat_chars)

\* ends_with comparing as contains does, ignoring the NULs of a padded
\* pattern
ends_with_IgnorePatPad(s, p) ==
    LET c == ends_with_cases(s, p)
    IN  IF length_checks(s, p).kind # "None" THEN length_checks(s, p).val
        ELSE compare_shifted(c.str_chars, c.pat_chars, c.range, p.padded)

\* ServerKey::ends_with
ends_with(s, p) ==
    LET c == ends_with_cases(s, p)
    IN  IF length_checks(s, p).kind # "None" THEN length_checks(s, p).val
        ELSE compare_shifted(c.str_chars, c.pat_chars, c.range, FALSE)

\* ServerKey::compare_shifted_index: the fold that keeps the start index
\* of the last match in iteration order, 0 when there is none
RECURSIVE compare_shifted_index(_, _, _, _)
compare_shifted_index(str_chars, pat_chars, iter, ignore_pat_pad) ==
    IF iter = <<>> THEN [index |-> 0, found |-> FALSE]
    ELSE LET n == Len(iter)
             before == compare_shifted_index(str_chars, pat_chars,
                                             Take(iter, n - 1), ignore_pat_pad)
             m == is_matched(str_chars, pat_chars, iter[n], ignore_pat_pad)
         IN  [index |-> IF m THEN iter[n] ELSE before.index,
              found |-> before.found \/ m]

\* find folding over the alignments in ascending order
find_Ascending(s, p) ==
    LET c == contains_cases(s, p)
    IN  IF length_checks(s, p).kind # "None"
        THEN [index |-> 0, found |-> length_checks(s, p).val]
        ELSE compare_shifted_index(c.str_chars, c.pat_chars, c.range, p.padded)

\* ServerKey::find
find(s, p) ==
    LET c == contains_cases(s, p)
        iter_values == Reverse(c.range)
    IN  IF length_checks(s, p).kind # "None"
        THEN [index |-> 0, found |-> length_checks(s, p).val]
        ELSE compare_shifted_index(c.str_chars, c.pat_chars, iter_values, p.padded)

\* rfind without the select on is_empty(pat) after the fold
rfind_NoEmptyPatSelect(s, p) ==
    LET str_len == Len(s.chars)
        lc == length_checks(s, p)
        c == contains_cases(s, p)
        iter_values == IF ~s.padded /\ p.padded THEN RangeSeq(0, str_len + 1)
                       ELSE c.range
    IN  IF lc.kind = "Clear"
        THEN [index |-> IF lc.val THEN len_radix(s) ELSE 0, found |-> lc.val]
        ELSE IF lc.kind = "Cipher"
        THEN [index |-> 0, found |-> lc.val]
        ELSE compare_shifted_index(c.str_chars, c.pat_chars, iter_values, p.padded)

\* ServerKey::rfind
rfind(s, p) ==
    LET str_len == Len(s.chars)
        lc == length_checks(s, p)
        c == contains_cases(s, p)
        iter_values == IF ~s.padded /\ p.padded THEN RangeSeq(0, str_len + 1)
                       ELSE c.range
        fold == compare_shifted_index(c.str_chars, c.pat_chars, iter_values, p.padded)
    IN  IF lc.kind = "Clear"
        THEN [index |-> IF lc.val THEN len_radix(s) ELSE 0, found |-> lc.val]
        ELSE IF lc.kind = "Cipher"
        THEN [index |-> 0, found |-> lc.val]
        ELSE IF s.padded /\ is_empty(p).kind = "Padding"
        THEN [index |-> IF is_empty(p).val THEN len_radix(s) ELSE fold.index,
              found |-> fold.found]
        ELSE fold

\* ServerKey::compare_shifted_strip: at every start index the bytes of
\* strip_str in start..start+pat_len (or start.. when that passes the view)
\* are ANDed with 0x00 on a match and with 0xFF otherwise.  `in_range`
\* records that every slice taken lay inside strip_str.
RECURSIVE compare_shifted_strip(_, _, _, _, _)
compare_shifted_strip(strip_chars, str_chars, pat_chars, iter, ignore_pat_pad) ==
    IF iter = <<>>
    THEN [chars |-> strip_chars, result |-> FALSE, in_range |-> TRUE]
    ELSE LET n == Len(iter)
             before == compare_shifted_strip(strip_chars, str_chars, pat_chars,
                                             Take(iter, n - 1), ignore_pat_pad)
             start == iter[n]
             pat_len == Len(pat_chars)
             str_len == Len(str_chars)
             m == is_matched(str_chars, pat_chars, start, ignore_pat_pad)
             stop == IF start + pat_len < str_len THEN start + pat_len
                     ELSE Len(strip_chars)
         IN  [chars |-> [i \in 1..Len(strip_chars) |->
                            IF m /\ start < i /\ i <= stop THEN NUL
                            ELSE before.chars[i]],
              result |-> before.result \/ m,
              in_range |-> before.in_range /\ start <= Len(strip_chars)
                              /\ stop <= Len(strip_chars)]

\* strip_prefix shifting by the capacity of the pattern
strip_prefix_ShiftByCapacity(s, p) ==
    LET found == starts_with(s, p)
        shifted == left_shift_chars(s, IF found THEN Len(p.chars) ELSE 0)
    IN  IF length_checks(s, p).kind # "None"
        THEN [string |-> s, found |-> length_checks(s, p).val, panic |-> FALSE]
        ELSE [string |-> IF ~s.padded THEN append_null(shifted)
                         ELSE set_is_padded(shifted, TRUE),
              found |-> found, panic |-> FALSE]

\* ServerKey::strip_prefix
strip_prefix(s, p) ==
    LET found == starts_with(s, p)
        real_pat_len == len_radix(p)
        shift_left == IF found THEN real_pat_len ELSE 0
        shifted == left_shift_chars(s, shift_left)
    IN  IF length_checks(s, p).kind # "None"
        THEN [string |-> s, found |-> length_checks(s, p).val, panic |-> FALSE]
        ELSE [string |-> IF ~s.padded THEN append_null(shifted)
                         ELSE set_is_padded(shifted, TRUE),
              found |-> found, panic |-> FALSE]

\* strip_suffix with the match bits computed ignoring pattern NULs
strip_suffix_IgnorePatPad(s, p) ==
    LET c == ends_with_cases(s, p)
        r == compare_shifted_strip(s.chars, c.str_chars, c.pat_chars, c.range, TRUE)
        result == FheString(r.chars, s.padded)
    IN  IF length_checks(s, p).kind # "None"
        THEN [string |-> s, found |-> length_checks(s, p).val, panic |-> FALSE]
        ELSE IF ~r.in_range
        THEN [string |-> s, found |-> FALSE, panic |-> TRUE]
        ELSE [string |-> IF ~s.padded THEN append_null(result) ELSE result,
              found |-> r.result, panic |-> FALSE]

\* ServerKey::strip_suffix
strip_suffix(s, p) ==
    LET c == ends_with_cases(s, p)
        r == compare_shifted_strip(s.chars, c.str_chars, c.pat_chars, c.range, FALSE)
        result == FheString(r.chars, s.padded)
    IN  IF length_checks(s, p).kind # "None"
        THEN [string |-> s, found |-> length_checks(s, p).val, panic |-> FALSE]
        ELSE IF ~r.in_range
        THEN [string |-> s, found |-> FALSE, panic |-> TRUE]
        ELSE [string |-> IF ~s.padded THEN append_null(result) ELSE result,
              found |-> r.result, panic |-> FALSE]

\* ---------------------------------------------------------------- trimming
\* ServerKey::is_whitespace: space, tab, line feed, form feed, carriage
\* return, and NUL too when or_null
is_whitespace(char, or_null) ==
    \/ char = 32
    \/ char = 9
    \/ char = 10
    \/ char = 12
    \/ char = 13
    \/ (or_null /\ char = NUL)

\* ServerKey::compare_and_trim over the characters in iteration order:
\* a character is replaced by NUL while it is whitespace and every
\* character before it was.  prev_was_ws starts as 1.
RECURSIVE compare_and_trim_from(_, _, _)
compare_and_trim_from(strip_str, starts_with_null, prev_was_ws) ==
    IF strip_str = <<>> THEN <<>>
    ELSE LET is_ws == is_whitespace(Head(strip_str), starts_with_null) /\ prev_was_ws
         IN  <<IF is_ws THEN NUL ELSE Head(strip_str)>>
                \o compare_and_trim_from(Tail(strip_str), starts_with_null, is_ws)

\* compare_and_trim without prev_was_ws: every whitespace becomes NUL
compare_and_trim_EveryWhitespace(strip_str, starts_with_null) ==
    [i \in 1..Len(strip_str) |->
        IF is_whitespace(strip_str[i], starts_with_null) THEN NUL ELSE strip_str[i]]

compare_and_trim(strip_str, starts_with_null) ==
    compare_and_trim_from(strip_str, starts_with_null, TRUE)

\* ServerKey::trim_start
trim_start(s) ==
    LET trimmed == FheString(compare_and_trim(s.chars, FALSE), TRUE)
        len_after_trim == len(trimmed)
        original_str_len == len_radix(s)
        shift_left == original_str_len - len_after_trim.val
        result == IF len_after_trim.kind = "Padding"
                  THEN left_shift_chars(trimmed, shift_left)
                  ELSE trimmed
    IN  IF ~s.padded THEN append_null(result) ELSE set_is_padded(result, TRUE)

\* ServerKey::trim_end: the characters are visited last to first
trim_end(s) ==
    LET include_null == s.padded
        result == FheString(
            Reverse(compare_and_trim(Reverse(s.chars), include_null)), s.padded)
    IN  IF ~s.padded THEN append_null(result) ELSE result

\* ServerKey::trim
trim(s) == trim_end(trim_start(s))

\* ------------------------------------------------------ split at an index
\* Unsigned cipher > scalar and cipher <= scalar for a radix kept as its
\* two's-complement representative (scalar_gt_parallelized,
\* scalar_le_parallelized)
scalar_gt(cipher, scalar) == cipher < 0 \/ cipher > scalar

scalar_le(cipher, scalar) == cipher >= 0 /\ cipher <= scalar

\* conditional_string taking the padding of the string selected
conditional_string_FlagOfSelected(condition, true_ct, false_ct) ==
    LET u == pad_ciphertexts_lsb(to_uint(true_ct), to_uint(false_ct))
        result == from_uint(IF condition THEN u[1] ELSE u[2])
        selected == IF condition THEN true_ct ELSE false_ct
    IN  IF selected.padded THEN set_is_padded(result, TRUE)
        ELSE append_null(result)

\* ServerKey::conditional_string: both strings as integers, the shorter
\* one extended on its least significant side, then a select.  The result
\* is flagged padded when both are, and gets a NUL appended when only one
\* is.
conditional_string(condition, true_ct, false_ct) ==
    LET padded == true_ct.padded /\ false_ct.padded
        potentially_padded == true_ct.padded \/ false_ct.padded
        u == pad_ciphertexts_lsb(to_uint(true_ct), to_uint(false_ct))
        result == from_uint(IF condition THEN u[1] ELSE u[2])
    IN  IF padded THEN set_is_padded(result, TRUE)
        ELSE IF potentially_padded THEN append_null(result)
        ELSE result

\* split_pat_at_index keeping in lhs only what precedes the index, also in
\* the inclusive case
split_pat_at_index_DelimiterDropped(s, p, index, inclusive) ==
    LET str_len == Len(s.chars)
        real_pat_len == len_radix(p)
        shift_right == str_len - index
        shift_left == real_pat_len + index
        lhs == left_shift_chars(right_shift_chars(s, shift_right), shift_right)
        rhs == left_shift_chars(s, shift_left)
    IN  IF s.padded
        THEN <<set_is_padded(lhs, TRUE), set_is_padded(rhs, TRUE)>>
        ELSE <<append_null(lhs), append_null(rhs)>>

\* ServerKey::split_pat_at_index: lhs keeps the first `index` characters
\* (and the pattern after them when inclusive), rhs what follows the
\* pattern.  The subtractions and the addition are modulo 2^32.
split_pat_at_index(s, p, index, inclusive) ==
    LET str_len == Len(s.chars)
        real_pat_len == len_radix(p)
        shift_right == IF inclusive THEN (str_len - index) - real_pat_len
                       ELSE str_len - index
        shift_left == real_pat_len + index
        lhs == left_shift_chars(right_shift_chars(s, shift_right), shift_right)
        rhs == left_shift_chars(s, shift_left)
    IN  IF s.padded
        THEN <<set_is_padded(lhs, TRUE), set_is_padded(rhs, TRUE)>>
        ELSE <<append_null(lhs), append_null(rhs)>>

\* rsplit_once splitting at the first occurrence
rsplit_once_AtFirst(s, p) ==
    LET lc == length_checks(s, p)
        f == find(s, p)
        parts == split_pat_at_index(s, p, f.index, FALSE)
    IN  IF lc.kind = "Clear"
        THEN (IF lc.val THEN [lhs |-> s, rhs |-> FheString_empty, is_match |-> TRUE]
              ELSE [lhs |-> FheString_empty, rhs |-> s, is_match |-> FALSE])
        ELSE IF lc.kind = "Cipher"
        THEN [lhs |-> FheString_empty, rhs |-> FheString_empty, is_match |-> lc.val]
        ELSE [lhs |-> parts[1], rhs |-> parts[2], is_match |-> f.found]

\* ServerKey::rsplit_once
rsplit_once(s, p) ==
    LET lc == length_checks(s, p)
        f == rfind(s, p)
        parts == split_pat_at_index(s, p, f.index, FALSE)
    IN  IF lc.kind = "Clear"
        THEN (IF lc.val THEN [lhs |-> s, rhs |-> FheString_empty, is_match |-> TRUE]
              ELSE [lhs |-> FheString_empty, rhs |-> s, is_match |-> FALSE])
        ELSE IF lc.kind = "Cipher"
        THEN [lhs |-> FheString_empty, rhs |-> FheString_empty, is_match |-> lc.val]
        ELSE [lhs |-> parts[1], rhs |-> parts[2], is_match |-> f.found]

\* ServerKey::split_once
split_once(s, p) ==
    LET lc == length_checks(s, p)
        f == find(s, p)
        parts == split_pat_at_index(s, p, f.index, FALSE)
    IN  IF lc.kind = "Clear"
        THEN [lhs |-> FheString_empty, rhs |-> s, is_match |-> lc.val]
        ELSE IF lc.kind = "Cipher"
        THEN [lhs |-> FheString_empty, rhs |-> FheString_empty, is_match |-> lc.val]
        ELSE [lhs |-> parts[1], rhs |-> parts[2], is_match |-> f.found]

\* --------------------------------------------------------- split iterators
\* The index to split at for an empty pattern, moved the same way in
\* both directions
advance_index_AlwaysAdd(split_type, index, pat_is_empty, counter) ==
    IF counter > 0 THEN index + (IF pat_is_empty THEN 1 ELSE 0) ELSE index

\* The index to split at left where the search put it
advance_index_Never(split_type, index, pat_is_empty, counter) == index

\* SplitInternal::next, the index it splits at: from the second call on
\* is_empty(pat), as 0 or 1, is added to the index the search returned,
\* or subtracted from it (modulo 2^32) when splitting from the right.
advance_index(split_type, index, pat_is_empty, counter) ==
    IF counter > 0
    THEN (IF split_type = "RSplit"
          THEN index - (IF pat_is_empty THEN 1 ELSE 0)
          ELSE index + (IF pat_is_empty THEN 1 ELSE 0))
    ELSE index

\* The present flag without the previous call's match
present_flag_CurrentOnly(current_is_some, prev_was_some, counter_lt_max) ==
    current_is_some /\ counter_lt_max

\* SplitInternal::next, the flag it returns: a match now, or a match at
\* the previous call (the remaining string is returned), and the counter
\* bound not reached.
present_flag(current_is_some, prev_was_some, counter_lt_max) ==
    (current_is_some \/ prev_was_some) /\ counter_lt_max

\* split_internal counting one call more before it stops
split_internal_OneMoreCall(s, p, split_type) ==
    [split_type |-> split_type, state |-> s, pat |-> p,
     prev_was_some |-> TRUE, counter |-> 0,
     max_counter |-> len_radix(s) + 2, counter_lt_max |-> TRUE]

\* ServerKey::split_internal
split_internal(s, p, split_type) ==
    [split_type |-> split_type, state |-> s, pat |-> p,
     prev_was_some |-> TRUE, counter |-> 0,
     max_counter |-> len_radix(s) + 1, counter_lt_max |-> TRUE]

\* <SplitInternal as FheStringIterator>::next: the iterator after the call,
\* the string returned and its flag
SplitInternal_next(self) ==
    LET found == IF self.split_type = "RSplit" THEN rfind(self.state, self.pat)
                 ELSE find(self.state, self.pat)
        pat_is_empty == is_empty(self.pat).val
        index == advance_index(self.split_type, found.index, pat_is_empty,
                               self.counter)
        parts == split_pat_at_index(self.state, self.pat, index,
                                    self.split_type = "SplitInclusive")
        lhs == parts[1]
        rhs == parts[2]
        current_is_some == found.found
        result == IF self.split_type = "RSplit"
                  THEN conditional_string(current_is_some, rhs, self.state)
                  ELSE conditional_string(current_is_some, lhs, self.state)
        is_some == present_flag(current_is_some, self.prev_was_some,
                                self.counter_lt_max)
    IN  [self |-> [split_type |-> self.split_type,
                   state |-> IF self.split_type = "RSplit" THEN lhs ELSE rhs,
                   pat |-> self.pat,
                   prev_was_some |-> current_is_some,
                   counter |-> (self.counter + 1) % Pow2(16),
                   max_counter |-> self.max_counter,
                   counter_lt_max |-> scalar_gt(self.max_counter, self.counter)],
         result |-> result,
         is_some |-> is_some]

\* A count given in the clear or encrypted with a public maximum
\* (UIntArg::Clear(u16), UIntArg::Enc)
UIntArg_Clear(n) == [kind |-> "Clear", val |-> n, max |-> n]

UIntArg_Enc(n, max) == [kind |-> "Enc", val |-> n, max |-> max]

\* The limit test one call late
exceeded_AtN(n, counter) ==
    IF n.kind = "Clear" THEN counter >= n.val
    ELSE scalar_le(n.val, counter)

\* SplitNInternal::next, the test that the call counter has reached n - 1:
\* `self.counter >= clear_n - 1` on u16 for a clear n, and
\* scalar_le(n - 1, counter) on the radix for an encrypted one.
exceeded(n, counter) ==
    IF n.kind = "Clear" THEN counter >= (n.val - 1) % Pow2(16)
    ELSE scalar_le(n.val - 1, counter)

\* ServerKey::splitn_internal
splitn_internal(s, p, n, split_type) ==
    [internal |-> split_internal(s, p, split_type),
     n |-> n,
     counter |-> 0,
     not_exceeded |-> n.val # 0]

\* <SplitNInternal as FheStringIterator>::next
SplitNInternal_next(self) ==
    LET state == self.internal.state
        inner == SplitInternal_next(self.internal)
        is_some == inner.is_some /\ self.not_exceeded
        limit == exceeded(self.n, self.counter)
        result == IF self.n.kind = "Clear"
                  THEN (IF limit THEN state ELSE inner.result)
                  ELSE conditional_string(limit, state, inner.result)
    IN  [self |-> [internal |-> inner.self,
                   n |-> self.n,
                   counter |-> (self.counter + 1) % Pow2(16),
                   not_exceeded |-> IF limit THEN FALSE ELSE self.not_exceeded],
         result |-> result,
         is_some |-> is_some]

\* ServerKey::split_no_trailing: as split_internal, with max_counter one
\* less
split_no_trailing(s, p, split_type) ==
    [internal |-> [split_type |-> split_type, state |-> s, pat |-> p,
                   prev_was_some |-> TRUE, counter |-> 0,
                   max_counter |-> len_radix(s), counter_lt_max |-> TRUE]]

\* The filter dropping every empty segment
trailing_empty_str_AnyEmpty(result_is_empty, prev_was_some) == result_is_empty

\* SplitNoTrailing::next, the filter: the string returned is empty and the
\* call made no match (it returned the remaining string)
trailing_empty_str(result_is_empty, prev_was_some) ==
    result_is_empty /\ (prev_was_some # TRUE)

\* <SplitNoTrailing as FheStringIterator>::next
SplitNoTrailing_next(self) ==
    LET inner == SplitInternal_next(self.internal)
        result_is_empty == is_empty(inner.result).val
        is_some == IF trailing_empty_str(result_is_empty,
                                         inner.self.prev_was_some)
                   THEN FALSE ELSE inner.is_some
    IN  [self |-> [internal |-> inner.self],
         result |-> inner.result,
         is_some |-> is_some]

\* ServerKey::split_no_leading: the first call of next is made in advance
split_no_leading(s, p) ==
    LET first == SplitInternal_next(split_internal(s, p, "RSplit"))
    IN  [internal |-> first.self,
         prev_return |-> [result |-> first.result, is_some |-> first.is_some],
         leading_empty_str |-> is_empty(first.result).val]

\* <SplitNoLeading as FheStringIterator>::next
SplitNoLeading_next(self) ==
    LET inner == SplitInternal_next(self.internal)
    IN  [self |-> [internal |-> inner.self,
                   prev_return |-> [result |-> inner.result,
                                    is_some |-> inner.is_some],
                   leading_empty_str |-> self.leading_empty_str],
         result |-> conditional_string(self.leading_empty_str, inner.result,
                                       self.prev_return.result),
         is_some |-> IF self.leading_empty_str THEN inner.is_some
                     ELSE self.prev_return.is_some]

\* ------------------------------------------------- split_ascii_whitespace
\* ServerKey::split_ascii_whitespace; current_mask is None
split_ascii_whitespace(s) == [initial_string |-> s, current_mask |-> <<>>]

\* The mask bytes of create_mask: 255 up to the first whitespace, 0 from it
\* on.  prev_was_not starts as 1.
RECURSIVE mask_from(_, _)
mask_from(chars, prev_was_not) ==
    IF chars = <<>> THEN <<>>
    ELSE LET is_not_ws == (is_whitespace(Head(chars), FALSE) # TRUE) /\ prev_was_not
         IN  <<IF is_not_ws THEN 255 ELSE 0>> \o mask_from(Tail(chars), is_not_ws)

\* The mask with 255 on every character that is not whitespace
mask_EveryWord(chars) ==
    [i \in 1..Len(chars) |-> IF is_whitespace(chars[i], FALSE) THEN 0 ELSE 255]

\* SplitAsciiWhitespace::create_mask, the mask
create_mask(chars) == mask_from(chars, TRUE)

\* SplitAsciiWhitespace::remaining_string: the string shifted left by the
\* number of 255 bytes of the mask
remaining_string(self) ==
    LET mask == self.current_mask[1]
        number_of_trues == Cardinality({i \in 1..Len(mask.chars) : mask.chars[i] = 255})
        shifted == left_shift_chars(self.initial_string, number_of_trues)
    IN  IF self.initial_string.padded THEN set_is_padded(shifted, TRUE)
        ELSE append_null(shifted)

\* SplitAsciiWhitespace::next: the iterator after the call and the string
\* returned (the characters ANDed with the mask)
SplitAsciiWhitespace_next(self) ==
    LET is_not_first_call == self.current_mask # <<>>
        remaining == IF is_not_first_call THEN remaining_string(self)
                     ELSE self.initial_string
        initial_string == trim_start(remaining)
        mask == create_mask(initial_string.chars)
        result == [i \in 1..Len(mask) |->
                      IF mask[i] = 255 THEN initial_string.chars[i] ELSE NUL]
    IN  [self |-> [initial_string |-> initial_string,
                   current_mask |-> <<FheString(mask, initial_string.padded)>>],
         result |-> FheString(result, initial_string.padded)]

\* ------------------------------------------------------------------ inputs
\* The encryptions FheString::new produces for the strings over S of length
\* at most n with 0..MaxPad NULs of padding, and the unpadded string of
\* capacity 0 (FheString::empty; comp.rs handles it as NoPadding(true)).
Encryptions(S, n) ==
    {FheString_new(s, padding) : s \in SeqsUpTo(S, n), padding \in 0..MaxPad}
        \cup {FheString_empty}

\* ------------------------------------------------------------- operations
Init ==
    /\ str \in Encryptions(Letters, MaxStrLen)
    /\ pat \in Encryptions(Letters, MaxPatLen)
    /\ op = <<>>
    /\ args = <<>>
    /\ res = <<>>
    /\ split_iter = <<>>

\* One call of a two-argument operation; the comparisons are called with
\* the two strings in either order.
Call(name, a, b, value) ==
    /\ op = <<>>
    /\ op' = <<name>>
    /\ args' = <<a, b>>
    /\ res' = value
    /\ UNCHANGED <<str, pat, split_iter>>

Eq == \E o \in {<<str, pat>>, <<pat, str>>} : Call("eq", o[1], o[2], eq(o[1], o[2]))

Ne == \E o \in {<<str, pat>>, <<pat, str>>} : Call("ne", o[1], o[2], ne(o[1], o[2]))

Lt == \E o \in {<<str, pat>>, <<pat, str>>} : Call("lt", o[1], o[2], lt(o[1], o[2]))

Le == \E o \in {<<str, pat>>, <<pat, str>>} : Call("le", o[1], o[2], le(o[1], o[2]))

Gt == \E o \in {<<str, pat>>, <<pat, str>>} : Call("gt", o[1], o[2], gt(o[1], o[2]))

Ge == \E o \in {<<str, pat>>, <<pat, str>>} : Call("ge", o[1], o[2], ge(o[1], o[2]))

Contains == Call("contains", str, pat, contains(str, pat))

StartsWith == Call("starts_with", str, pat, starts_with(str, pat))

EndsWith == Call("ends_with", str, pat, ends_with(str, pat))

Find == Call("find", str, pat, find(str, pat))

Rfind == Call("rfind", str, pat, rfind(str, pat))

StripPrefix == Call("strip_prefix", str, pat, strip_prefix(str, pat))

StripSuffix == Call("strip_suffix", str, pat, strip_suffix(str, pat))

SplitOnce == Call("split_once", str, pat, split_once(str, pat))

RsplitOnce == Call("rsplit_once", str, pat, rsplit_once(str, pat))

Next ==
    \/ Eq
    \/ Ne
    \/ Lt
    \/ Le
    \/ Gt
    \/ Ge
    \/ Contains
    \/ StartsWith
    \/ EndsWith
    \/ Find
    \/ Rfind
    \/ StripPrefix
    \/ StripSuffix
    \/ SplitOnce
    \/ RsplitOnce

Spec == Init /\ [][Next]_vars

\* The trimming operations, applied one after the other to the string that
\* the previous one returned (res), starting from the encrypted input.
InitTrim ==
    /\ str \in Encryptions(TrimChars, MaxStrLen)
    /\ pat = FheString_empty
    /\ op = <<>>
    /\ args = <<str>>
    /\ res = str
    /\ split_iter = <<>>

Apply(name, value) ==
    /\ Len(op) <= 1
    /\ op' = Append(op, name)
    /\ res' = value
    /\ UNCHANGED <<str, pat, args, split_iter>>

TrimStart == Apply("trim_start", trim_start(res))

TrimEnd == Apply("trim_end", trim_end(res))

Trim == Apply("trim", trim(res))

NextTrim ==
    \/ TrimStart
    \/ TrimEnd
    \/ Trim

SpecTrim == InitTrim /\ [][NextTrim]_vars

\* The split iterators: one is constructed from the encrypted inputs, then
\* next is called on it MaxCalls times at most; res collects what the
\* calls returned, in order.
MaxCalls == MaxStrLen + 4

InitSplit ==
    /\ str \in Encryptions(Letters, MaxStrLen)
    /\ pat \in Encryptions(Letters, MaxPatLen)
    /\ op = <<>>
    /\ args = <<>>
    /\ res = <<>>
    /\ split_iter = <<>>

Construct(name, a, value) ==
    /\ op = <<>>
    /\ op' = <<name>>
    /\ args' = a
    /\ split_iter' = value
    /\ res' = <<>>
    /\ UNCHANGED <<str, pat>>

\* One call of next: r is the iterator after the call with what the call
\* returned
Returned(r) ==
    LET returned == r
    IN  /\ split_iter' = returned.self
        /\ res' = Append(res, [result |-> returned.result,
                               is_some |-> returned.is_some])
        /\ UNCHANGED <<str, pat, op, args>>

Split == Construct("split", <<str, pat>>, split_internal(str, pat, "Split"))

Rsplit == Construct("rsplit", <<str, pat>>, split_internal(str, pat, "RSplit"))

SplitTerminator ==
    Construct("split_terminator", <<str, pat>>, split_no_trailing(str, pat, "Split"))

RsplitTerminator ==
    Construct("rsplit_terminator", <<str, pat>>, split_no_leading(str, pat))

SplitInclusive ==
    Construct("split_inclusive", <<str, pat>>,
              split_no_trailing(str, pat, "SplitInclusive"))

NextSplitInternal ==
    /\ op \in {<<"split">>, <<"rsplit">>}
    /\ Len(res) < MaxCalls
    /\ Returned(SplitInternal_next(split_iter))

NextSplitNoTrailing ==
    /\ op \in {<<"split_terminator">>, <<"split_inclusive">>}
    /\ Len(res) < MaxCalls
    /\ Returned(SplitNoTrailing_next(split_iter))

NextSplitNoLeading ==
    /\ op = <<"rsplit_terminator">>
    /\ Len(res) < MaxCalls
    /\ Returned(SplitNoLeading_next(split_iter))

NextSplitIters ==
    \/ Split
    \/ Rsplit
    \/ SplitTerminator
    \/ RsplitTerminator
    \/ SplitInclusive
    \/ NextSplitInternal
    \/ NextSplitNoTrailing
    \/ NextSplitNoLeading

SpecSplit == InitSplit /\ [][NextSplitIters]_vars

\* splitn and rsplitn: the limit n is given in the clear or encrypted with
\* the public maximum MaxN, and next is called MaxCallsN times at most.
MaxN == 3

MaxCallsN == MaxN + 2

SplitN ==
    \E n \in 1..MaxN : \E arg \in {UIntArg_Clear(n), UIntArg_Enc(n, MaxN)} :
        Construct("splitn", <<str, pat, arg>>,
                  splitn_internal(str, pat, arg, "Split"))

RsplitN ==
    \E n \in 1..MaxN : \E arg \in {UIntArg_Clear(n), UIntArg_Enc(n, MaxN)} :
        Construct("rsplitn", <<str, pat, arg>>,
                  splitn_internal(str, pat, arg, "RSplit"))

NextSplitNInternal ==
    /\ op \in {<<"splitn">>, <<"rsplitn">>}
    /\ Len(res) < MaxCallsN
    /\ Returned(SplitNInternal_next(split_iter))

NextSplitN ==
    \/ SplitN
    \/ RsplitN
    \/ NextSplitNInternal

SpecSplitN == InitSplit /\ [][NextSplitN]_vars

\* split_ascii_whitespace: the iterator is constructed from an encrypted
\* string of whitespace and other bytes, then next is called MaxCalls times
\* at most; res collects the strings returned.
InitWhitespace ==
    /\ str \in Encryptions(TrimChars, MaxStrLen)
    /\ pat = FheString_empty
    /\ op = <<>>
    /\ args = <<>>
    /\ res = <<>>
    /\ split_iter = <<>>

SplitAsciiWhitespace ==
    Construct("split_ascii_whitespace", <<str>>, split_ascii_whitespace(str))

NextSplitAsciiWhitespace ==
    /\ op = <<"split_ascii_whitespace">>
    /\ Len(res) < MaxCalls
    /\ LET returned == SplitAsciiWhitespace_next(split_iter)
       IN  /\ split_iter' = returned.self
           /\ res' = Append(res, returned.result)
    /\ UNCHANGED <<str, pat, op, args>>

NextWhitespace ==
    \/ SplitAsciiWhitespace
    \/ NextSplitAsciiWhitespace

SpecWhitespace == InitWhitespace /\ [][NextWhitespace]_vars

\* --------------------------------------------- plaintext (core::str) side
\* s < t in the byte-wise lexicographic order of Rust's str
RECURSIVE StrLt(_, _)
StrLt(s, t) ==
    IF t = <<>> THEN FALSE
    ELSE IF s = <<>> THEN TRUE
    ELSE IF Head(s) # Head(t) THEN Head(s) < Head(t)
    ELSE StrLt(Tail(s), Tail(t))

\* The plaintext of the i-th operand of the call made
Plain(i) == decrypt_ascii(args[i])

\* C1: eq (and ne, its negation) on two encrypted strings decrypts to 1
\* exactly when the plaintexts are equal, for every padding of either side.
C1_EqExact ==
    /\ op = <<"eq">> => (res = (Plain(1) = Plain(2)))
    /\ op = <<"ne">> => (res = (Plain(1) # Plain(2)))

\* An eq call that got past eq_length_checks with an unpadded side strictly
\* shorter than the other side minus one, so that it was extended by a NUL.
C1_Witness ==
    /\ op = <<"eq">>
    /\ ~eq_length_checks(args[1], args[2]).some
    /\ ~args[1].padded
    /\ Len(args[1].chars) < Len(args[2].chars) - 1
    /\ res = FALSE
    /\ Take(args[2].chars, Len(args[1].chars)) = args[1].chars

\* C2: lt, le, gt, ge decrypt to the byte-wise lexicographic order of the
\* plaintexts, for every padding of either side.
C2_LexOrder ==
    /\ op = <<"lt">> => (res = StrLt(Plain(1), Plain(2)))
    /\ op = <<"le">> => (res = ~StrLt(Plain(2), Plain(1)))
    /\ op = <<"gt">> => (res = StrLt(Plain(2), Plain(1)))
    /\ op = <<"ge">> => (res = ~StrLt(Plain(1), Plain(2)))

\* lt answered 1 for a proper prefix against the longer string, the two
\* packings having different capacities.
C2_Witness ==
    /\ op = <<"lt">>
    /\ res = TRUE
    /\ Plain(1) # <<>>
    /\ Len(Plain(1)) < Len(Plain(2))
    /\ Take(Plain(2), Len(Plain(1))) = Plain(1)
    /\ Len(args[1].chars) # Len(args[2].chars)

\* p occurs in s at the 0-based byte index i
OccursAt(s, p, i) == i + Len(p) <= Len(s) /\ SubSeq(s, i + 1, i + Len(p)) = p

Occurrences(s, p) == {i \in 0..Len(s) : OccursAt(s, p, i)}

StrContains(s, p) == Occurrences(s, p) # {}

StrStartsWith(s, p) == OccursAt(s, p, 0)

StrEndsWith(s, p) == Len(p) <= Len(s) /\ OccursAt(s, p, Len(s) - Len(p))

SetMin(S) == CHOOSE x \in S : \A y \in S : x <= y

SetMax(S) == CHOOSE x \in S : \A y \in S : x >= y

\* C3: contains decrypts to 1 exactly when the pattern occurs in the string.
C3_Contains ==
    op = <<"contains">> => (res = StrContains(Plain(1), Plain(2)))

\* contains enumerated the alignments and found the only occurrence at the
\* last one, against an unpadded string with a padded pattern.
C3_Witness ==
    /\ op = <<"contains">>
    /\ length_checks(args[1], args[2]).kind = "None"
    /\ ~args[1].padded /\ args[2].padded
    /\ res = TRUE
    /\ Plain(2) # <<>>
    /\ Occurrences(Plain(1), Plain(2)) = {Len(Plain(1)) - Len(Plain(2))}
    /\ Len(Plain(1)) > Len(Plain(2))

\* C4: starts_with decrypts to 1 exactly when the pattern is a prefix of
\* the string.
C4_StartsWith ==
    op = <<"starts_with">> => (res = StrStartsWith(Plain(1), Plain(2)))

\* starts_with answered 0 for a padded pattern whose content is longer than
\* the unpadded string and begins with it.
C4_Witness ==
    /\ op = <<"starts_with">>
    /\ length_checks(args[1], args[2]).kind = "None"
    /\ ~args[1].padded /\ args[2].padded
    /\ Len(Plain(2)) > Len(Plain(1))
    /\ Take(Plain(2), Len(Plain(1))) = Plain(1)
    /\ res = FALSE

\* C5: ends_with decrypts to 1 exactly when the pattern is a suffix of the
\* string.
C5_EndsWith ==
    op = <<"ends_with">> => (res = StrEndsWith(Plain(1), Plain(2)))

\* ends_with matched a non-empty pattern against a padded string at an
\* alignment other than the first one enumerated.
C5_Witness ==
    /\ op = <<"ends_with">>
    /\ length_checks(args[1], args[2]).kind = "None"
    /\ args[1].padded /\ args[2].padded
    /\ Plain(2) # <<>>
    /\ Len(Plain(1)) > Len(Plain(2))
    /\ res = TRUE

\* C6: find returns found = 1 with the smallest start index of an
\* occurrence when the pattern occurs, and found = 0 otherwise.
C6_Find ==
    op = <<"find">> =>
        /\ res.found = StrContains(Plain(1), Plain(2))
        /\ res.found => res.index = SetMin(Occurrences(Plain(1), Plain(2)))

\* find ran the fold with several matching alignments.
C6_Witness ==
    /\ op = <<"find">>
    /\ length_checks(args[1], args[2]).kind = "None"
    /\ Plain(2) # <<>>
    /\ Cardinality(Occurrences(Plain(1), Plain(2))) >= 2
    /\ res.found
    /\ res.index = SetMin(Occurrences(Plain(1), Plain(2)))
    /\ res.index > 0

\* C7: rfind returns found = 1 with the largest start index of an
\* occurrence (the length of the string for an empty pattern), and
\* found = 0 when there is none.
C7_Rfind ==
    op = <<"rfind">> =>
        /\ res.found = StrContains(Plain(1), Plain(2))
        /\ res.found => res.index = SetMax(Occurrences(Plain(1), Plain(2)))

\* rfind, past the length checks, with both sides padded, an empty pattern
\* and a string shorter than its capacity minus one.
C7_Witness ==
    /\ op = <<"rfind">>
    /\ length_checks(args[1], args[2]).kind = "None"
    /\ args[1].padded /\ args[2].padded
    /\ Plain(2) = <<>>
    /\ Plain(1) # <<>>
    /\ Len(Plain(1)) < Len(args[1].chars) - 1
    /\ res.found
    /\ res.index = Len(Plain(1))

\* C8: strip_prefix returns found = 1 and the string without its prefix
\* when the pattern is a prefix, found = 0 and the string unchanged
\* otherwise.
C8_StripPrefix ==
    op = <<"strip_prefix">> =>
        /\ ~res.panic
        /\ res.found = StrStartsWith(Plain(1), Plain(2))
        /\ decrypt_ascii(res.string) =
              IF res.found THEN Skip(Plain(1), Len(Plain(2))) ELSE Plain(1)

\* strip_prefix removed a non-empty prefix whose capacity exceeds its
\* length and left a non-empty string.
C8_Witness ==
    /\ op = <<"strip_prefix">>
    /\ length_checks(args[1], args[2]).kind = "None"
    /\ res.found
    /\ Plain(2) # <<>>
    /\ Len(args[2].chars) > Len(Plain(2)) + 1
    /\ decrypt_ascii(res.string) # <<>>
    /\ decrypt_ascii(res.string) = Skip(Plain(1), Len(Plain(2)))

\* C9: strip_suffix returns found = 1 and the string without its suffix
\* when the pattern is a suffix, found = 0 and the string unchanged
\* otherwise.
C9_StripSuffix ==
    op = <<"strip_suffix">> =>
        /\ ~res.panic
        /\ res.found = StrEndsWith(Plain(1), Plain(2))
        /\ decrypt_ascii(res.string) =
              IF res.found THEN Take(Plain(1), Len(Plain(1)) - Len(Plain(2)))
              ELSE Plain(1)

\* strip_suffix zeroed a non-empty suffix of a padded string and left a
\* non-empty string.
C9_Witness ==
    /\ op = <<"strip_suffix">>
    /\ length_checks(args[1], args[2]).kind = "None"
    /\ args[1].padded
    /\ res.found
    /\ Plain(2) # <<>>
    /\ decrypt_ascii(res.string) # <<>>
    /\ decrypt_ascii(res.string) = Take(Plain(1), Len(Plain(1)) - Len(Plain(2)))

\* str::trim_start, str::trim_end and str::trim for ASCII strings
RECURSIVE StrTrimStart(_)
StrTrimStart(s) ==
    IF s # <<>> /\ Head(s) \in Whitespace THEN StrTrimStart(Tail(s)) ELSE s

StrTrimEnd(s) == Reverse(StrTrimStart(Reverse(s)))

StrTrim(s) == StrTrimEnd(StrTrimStart(s))

\* C10: trim, trim_start after trim_end and trim_end after trim_start all
\* decrypt to the string without its leading and trailing whitespace;
\* trim_start alone removes only the leading run and trim_end alone only
\* the trailing run.
C10_Trim ==
    /\ op \in {<<"trim">>, <<"trim_end", "trim_start">>, <<"trim_start", "trim_end">>}
          => decrypt_ascii(res) = StrTrim(Plain(1))
    /\ op = <<"trim_start">> => decrypt_ascii(res) = StrTrimStart(Plain(1))
    /\ op = <<"trim_end">> => decrypt_ascii(res) = StrTrimEnd(Plain(1))

\* trim_start was applied to the result of trim_end on a padded string
\* with leading and trailing whitespace around a letter.
C10_Witness ==
    /\ op = <<"trim_end", "trim_start">>
    /\ args[1].padded
    /\ Plain(1) # <<>>
    /\ Head(Plain(1)) \in Whitespace
    /\ Plain(1)[Len(Plain(1))] \in Whitespace
    /\ decrypt_ascii(res) # <<>>
    /\ decrypt_ascii(res) = StrTrim(Plain(1))

\* ------------------------------------------ plaintext split (core::str)
\* str::split and its variants as core::str's SplitInternal computes them:
\* `start` is where the next segment begins and `pos` where the searcher
\* goes on.  A non-empty pattern is searched after the previous match; the
\* empty pattern matches at every index 0..len in turn.  When nothing
\* matches the rest is the last segment, left out when it is empty and
\* allow_trailing_empty is false (split_terminator, split_inclusive).
RECURSIVE StrSplitFrom(_, _, _, _, _, _)
StrSplitFrom(s, p, start, pos, allow_trailing_empty, inclusive) ==
    LET M == {i \in pos..Len(s) : OccursAt(s, p, i)}
        a == SetMin(M)
        b == a + Len(p)
    IN  IF M = {}
        THEN (IF allow_trailing_empty \/ Len(s) - start > 0
              THEN <<SubSeq(s, start + 1, Len(s))>> ELSE <<>>)
        ELSE <<SubSeq(s, start + 1, IF inclusive THEN b ELSE a)>>
                \o StrSplitFrom(s, p, b, IF p = <<>> THEN a + 1 ELSE b,
                                allow_trailing_empty, inclusive)

StrSplit(s, p) == StrSplitFrom(s, p, 0, 0, TRUE, FALSE)

StrSplitTerminator(s, p) == StrSplitFrom(s, p, 0, 0, FALSE, FALSE)

StrSplitInclusive(s, p) == StrSplitFrom(s, p, 0, 0, FALSE, TRUE)

\* str::rsplit: `end` is where the next segment ends, matches are searched
\* backwards and must end at or before `pos`
RECURSIVE StrRsplitFrom(_, _, _, _)
StrRsplitFrom(s, p, end, pos) ==
    LET M == {i \in 0..pos : OccursAt(s, p, i) /\ i + Len(p) <= pos}
        a == SetMax(M)
        b == a + Len(p)
    IN  IF M = {} THEN <<SubSeq(s, 1, end)>>
        ELSE <<SubSeq(s, b + 1, end)>>
                \o StrRsplitFrom(s, p, a, IF p = <<>> THEN a - 1 ELSE a)

StrRsplit(s, p) == StrRsplitFrom(s, p, Len(s), Len(s))

\* str::rsplit_terminator: the first segment is skipped when it is empty
StrRsplitTerminator(s, p) ==
    IF Head(StrRsplit(s, p)) = <<>> THEN Tail(StrRsplit(s, p)) ELSE StrRsplit(s, p)

\* What the calls made so far returned, as Option<String>: <<seg>> is
\* Some(seg), <<>> is None (assert_split decrypts the flag, then the string)
Decrypted(r) == IF r.is_some THEN <<decrypt_ascii(r.result)>> ELSE <<>>

\* The first Len(res) items of the plaintext iterator `expected` followed
\* by None, as assert_split builds them
Expected(expected, j) == IF j <= Len(expected) THEN <<expected[j]>> ELSE <<>>

\* The calls made so far returned the segments of `expected` in order,
\* each present, and the call after the last segment returned flag 0
Agrees(expected) ==
    \A j \in 1..Min(Len(res), Len(expected) + 1) :
        Decrypted(res[j]) = Expected(expected, j)

\* C11: the first k calls of next on split return the k segments of the
\* plaintext split in order, each with present flag 1, and call k+1 returns
\* present flag 0, for every padding of string and pattern.
C11_Split ==
    op = <<"split">> => Agrees(StrSplit(Plain(1), Plain(2)))

\* split of "aaa" by "aa" (overlapping candidates) called three times:
\* "", "a", then flag 0.
C11_Witness ==
    /\ op = <<"split">>
    /\ Plain(1) = <<97, 97, 97>>
    /\ Plain(2) = <<97, 97>>
    /\ Len(res) = 3
    /\ Decrypted(res[1]) = <<<<>>>>
    /\ Decrypted(res[2]) = <<<<97>>>>
    /\ Decrypted(res[3]) = <<>>

\* C12: the calls of next on rsplit return the segments of the plaintext
\* rsplit, right to left, each with present flag 1, and then present flag
\* 0; with an empty pattern, where the index is decremented from the second
\* call on and wraps once the remaining string is empty, they are "", the
\* characters of the string in reverse, then "".
C12_Rsplit ==
    op = <<"rsplit">> => Agrees(StrRsplit(Plain(1), Plain(2)))

\* rsplit of "ab" by the empty pattern called five times: "", "b", "a", ""
\* and flag 0; the fourth and fifth call searched an empty remaining string,
\* where the decremented index wraps.
C12_Witness ==
    /\ op = <<"rsplit">>
    /\ Plain(1) = <<97, 98>>
    /\ Plain(2) = <<>>
    /\ Len(res) = 5
    /\ Decrypted(res[1]) = <<<<>>>>
    /\ Decrypted(res[2]) = <<<<98>>>>
    /\ Decrypted(res[3]) = <<<<97>>>>
    /\ Decrypted(res[4]) = <<<<>>>>
    /\ Decrypted(res[5]) = <<>>
    /\ advance_index("RSplit", rfind(split_iter.state, split_iter.pat).index,
                     is_empty(split_iter.pat).val, split_iter.counter) < 0

\* str::splitn: at most n items, the n-th being the rest of the string
RECURSIVE StrSplitNFrom(_, _, _, _, _)
StrSplitNFrom(s, p, n, start, pos) ==
    LET M == {i \in pos..Len(s) : OccursAt(s, p, i)}
        a == SetMin(M)
        b == a + Len(p)
    IN  IF n = 0 THEN <<>>
        ELSE IF n = 1 \/ M = {} THEN <<SubSeq(s, start + 1, Len(s))>>
        ELSE <<SubSeq(s, start + 1, a)>>
                \o StrSplitNFrom(s, p, n - 1, b, IF p = <<>> THEN a + 1 ELSE b)

StrSplitN(s, p, n) == StrSplitNFrom(s, p, n, 0, 0)

\* str::rsplitn
RECURSIVE StrRsplitNFrom(_, _, _, _, _)
StrRsplitNFrom(s, p, n, end, pos) ==
    LET M == {i \in 0..pos : OccursAt(s, p, i) /\ i + Len(p) <= pos}
        a == SetMax(M)
        b == a + Len(p)
    IN  IF n = 0 THEN <<>>
        ELSE IF n = 1 \/ M = {} THEN <<SubSeq(s, 1, end)>>
        ELSE <<SubSeq(s, b + 1, end)>>
                \o StrRsplitNFrom(s, p, n - 1, a, IF p = <<>> THEN a - 1 ELSE a)

StrRsplitN(s, p, n) == StrRsplitNFrom(s, p, n, Len(s), Len(s))

\* What k calls of next return on a SplitNInternal, decrypted
RECURSIVE DriveSplitN(_, _)
DriveSplitN(it, k) ==
    IF k = 0 THEN <<>>
    ELSE LET r == SplitNInternal_next(it)
         IN  <<Decrypted(r)>> \o DriveSplitN(r.self, k - 1)

\* The same limit in the other form
OtherForm(n) ==
    IF n.kind = "Clear" THEN UIntArg_Enc(n.val, MaxN) ELSE UIntArg_Clear(n.val)

\* C13: for n >= 1, clear or encrypted, splitn and rsplitn return present
\* flag 1 on at most n calls; the present segments are those of the
\* plaintext splitn / rsplitn (the n-th being all that remains); every
\* later call returns present flag 0; and the clear and the encrypted form
\* of the same n return the same decrypted sequence.
C13_SplitN ==
    op \in {<<"splitn">>, <<"rsplitn">>} =>
        LET expected == IF op = <<"splitn">>
                        THEN StrSplitN(Plain(1), Plain(2), args[3].val)
                        ELSE StrRsplitN(Plain(1), Plain(2), args[3].val)
            other == splitn_internal(args[1], args[2], OtherForm(args[3]),
                                     IF op = <<"splitn">> THEN "Split" ELSE "RSplit")
        IN  /\ \A j \in 1..Len(res) : Decrypted(res[j]) = Expected(expected, j)
            /\ Cardinality({j \in 1..Len(res) : res[j].is_some}) <= args[3].val
            /\ Len(res) = MaxCallsN =>
                  [j \in 1..Len(res) |-> Decrypted(res[j])]
                      = DriveSplitN(other, Len(res))

\* splitn of "aaa" by "a" with the encrypted limit 2 called four times:
\* "", then the remaining "aa", then flag 0 twice.
C13_Witness ==
    /\ op = <<"splitn">>
    /\ args[3] = UIntArg_Enc(2, MaxN)
    /\ Plain(1) = <<97, 97, 97>>
    /\ Plain(2) = <<97>>
    /\ Len(res) = 4
    /\ Decrypted(res[1]) = <<<<>>>>
    /\ Decrypted(res[2]) = <<<<97, 97>>>>
    /\ Decrypted(res[3]) = <<>>
    /\ Decrypted(res[4]) = <<>>

\* A sequence of segments without its last one when that one is empty
DropEmptyLast(segments) ==
    IF segments # <<>> /\ segments[Len(segments)] = <<>>
    THEN Take(segments, Len(segments) - 1) ELSE segments

\* C14: split_terminator returns what split returns except that a final
\* empty segment gets present flag 0, rsplit_terminator what rsplit returns
\* except that a first empty segment is skipped; both agree with the
\* plaintext split_terminator / rsplit_terminator followed by present
\* flag 0.
C14_Terminator ==
    /\ op = <<"split_terminator">> =>
          /\ Agrees(StrSplitTerminator(Plain(1), Plain(2)))
          /\ StrSplitTerminator(Plain(1), Plain(2))
                = DropEmptyLast(StrSplit(Plain(1), Plain(2)))
    /\ op = <<"rsplit_terminator">> =>
          Agrees(StrRsplitTerminator(Plain(1), Plain(2)))

\* split_terminator of "ab" by "b" called twice: "a", then the empty rest
\* of the string with flag 0, a padded pattern.
C14_Witness ==
    /\ op = <<"split_terminator">>
    /\ Plain(1) = <<97, 98>>
    /\ Plain(2) = <<98>>
    /\ args[2].padded
    /\ Len(res) = 2
    /\ Decrypted(res[1]) = <<<<97>>>>
    /\ res[2].is_some = FALSE
    /\ decrypt_ascii(res[2].result) = <<>>
    /\ StrSplit(Plain(1), Plain(2)) = <<<<97>>, <<>>>>

\* The present segments among what the first k calls returned, joined with
\* nothing between them
RECURSIVE ConcatPresent(_)
ConcatPresent(k) ==
    IF k = 0 THEN <<>>
    ELSE ConcatPresent(k - 1)
            \o (IF res[k].is_some THEN decrypt_ascii(res[k].result) ELSE <<>>)

\* C15: split_inclusive returns the segments of the plaintext
\* split_inclusive and then present flag 0: every present segment but the
\* last ends with the pattern, the rest of the string is not reported when
\* it is empty (a present segment is empty only as the first one of an
\* empty pattern), and the present segments joined in order give back the
\* string.
C15_SplitInclusive ==
    op = <<"split_inclusive">> =>
        LET expected == StrSplitInclusive(Plain(1), Plain(2))
            k == Len(expected)
        IN  /\ Agrees(expected)
            /\ \A j \in 1..Len(res) :
                  /\ (j < k => StrEndsWith(decrypt_ascii(res[j].result), Plain(2)))
                  /\ (j <= k + 1 /\ res[j].is_some /\ decrypt_ascii(res[j].result) = <<>>)
                        => (j = 1 /\ Plain(2) = <<>>)
            /\ Len(res) >= k => ConcatPresent(Min(Len(res), k + 1)) = Plain(1)

\* split_inclusive of "aba" by "b" called three times: "ab", "a", flag 0.
C15_Witness ==
    /\ op = <<"split_inclusive">>
    /\ Plain(1) = <<97, 98, 97>>
    /\ Plain(2) = <<98>>
    /\ Len(res) = 3
    /\ Decrypted(res[1]) = <<<<97, 98>>>>
    /\ Decrypted(res[2]) = <<<<97>>>>
    /\ Decrypted(res[3]) = <<>>
    /\ ConcatPresent(3) = Plain(1)

\* str::split_ascii_whitespace: the maximal runs of bytes that are not
\* ASCII whitespace, in order
RECURSIVE StrWordsFrom(_, _)
StrWordsFrom(s, word) ==
    IF s = <<>> THEN (IF word = <<>> THEN <<>> ELSE <<word>>)
    ELSE IF Head(s) \in Whitespace
    THEN (IF word = <<>> THEN <<>> ELSE <<word>>) \o StrWordsFrom(Tail(s), <<>>)
    ELSE StrWordsFrom(Tail(s), Append(word, Head(s)))

StrSplitAsciiWhitespace(s) == StrWordsFrom(s, <<>>)

\* C16: for a string with w whitespace-separated words, the first w calls
\* of next on split_ascii_whitespace return those words in order, each
\* non-empty and free of whitespace, and call w+1 and every later call
\* return a string that decrypts to the empty string, for every padding.
C16_SplitAsciiWhitespace ==
    op = <<"split_ascii_whitespace">> =>
        LET words == StrSplitAsciiWhitespace(Plain(1))
        IN  \A j \in 1..Len(res) :
                IF j <= Len(words)
                THEN /\ decrypt_ascii(res[j]) = words[j]
                     /\ decrypt_ascii(res[j]) # <<>>
                     /\ \A i \in 1..Len(res[j].chars) : res[j].chars[i] \notin Whitespace
                ELSE decrypt_ascii(res[j]) = <<>>

\* Two words separated by a whitespace byte, unpadded, called four times:
\* the two words, then the empty string twice.
C16_Witness ==
    /\ op = <<"split_ascii_whitespace">>
    /\ ~args[1].padded
    /\ Len(StrSplitAsciiWhitespace(Plain(1))) = 2
    /\ Len(res) = 4
    /\ decrypt_ascii(res[1]) = <<Plain(1)[1]>>
    /\ decrypt_ascii(res[2]) = <<Plain(1)[3]>>
    /\ decrypt_ascii(res[3]) = <<>>
    /\ decrypt_ascii(res[4]) = <<>>

\* C17: split_once returns found = 1 exactly when the pattern occurs in the
\* string, and then lhs is the string before the first occurrence and rhs
\* the string after it; rsplit_once does the same around the last
\* occurrence; for an empty pattern split_once gives ("", s, 1) and
\* rsplit_once gives (s, "", 1).
C17_SplitOnce ==
    /\ op = <<"split_once">> =>
          /\ res.is_match = StrContains(Plain(1), Plain(2))
          /\ res.is_match =>
                LET i == SetMin(Occurrences(Plain(1), Plain(2)))
                IN  /\ decrypt_ascii(res.lhs) = Take(Plain(1), i)
                    /\ decrypt_ascii(res.rhs) = Skip(Plain(1), i + Len(Plain(2)))
                    /\ decrypt_ascii(res.lhs) \o Plain(2) \o decrypt_ascii(res.rhs)
                          = Plain(1)
          /\ Plain(2) = <<>> =>
                /\ decrypt_ascii(res.lhs) = <<>>
                /\ decrypt_ascii(res.rhs) = Plain(1)
                /\ res.is_match
    /\ op = <<"rsplit_once">> =>
          /\ res.is_match = StrContains(Plain(1), Plain(2))
          /\ res.is_match =>
                LET i == SetMax(Occurrences(Plain(1), Plain(2)))
                IN  /\ decrypt_ascii(res.lhs) = Take(Plain(1), i)
                    /\ decrypt_ascii(res.rhs) = Skip(Plain(1), i + Len(Plain(2)))
                    /\ decrypt_ascii(res.lhs) \o Plain(2) \o decrypt_ascii(res.rhs)
                          = Plain(1)
          /\ Plain(2) = <<>> =>
                /\ decrypt_ascii(res.lhs) = Plain(1)
                /\ decrypt_ascii(res.rhs) = <<>>
                /\ res.is_match

\* rsplit_once past the length checks on a string where the pattern occurs
\* twice: split around the last occurrence, not the first.
C17_Witness ==
    /\ op = <<"rsplit_once">>
    /\ length_checks(args[1], args[2]).kind = "None"
    /\ Plain(1) = <<97, 98, 97>>
    /\ Plain(2) = <<97>>
    /\ res.is_match
    /\ decrypt_ascii(res.lhs) = <<97, 98>>
    /\ decrypt_ascii(res.rhs) = <<>>

\* ------------------------------------------------------ what is public
\* The capacity and padded flag of an encrypted string
Shape(s) == [capacity |-> Len(s.chars), padded |-> s.padded]

\* The string of the same capacity and flag whose characters are all NUL
Zeroed(s) == FheString(Nulls(Len(s.chars)), s.padded)

\* The SplitNInternal with the same public fields (split type, call
\* counters, capacities and flags, a clear n, the maximum of an encrypted
\* n) and every encrypted value replaced by zero
ZeroedSplitN(it) ==
    [internal |-> [split_type |-> it.internal.split_type,
                   state |-> Zeroed(it.internal.state),
                   pat |-> Zeroed(it.internal.pat),
                   prev_was_some |-> FALSE,
                   counter |-> it.internal.counter,
                   max_counter |-> 0,
                   counter_lt_max |-> FALSE],
     n |-> IF it.n.kind = "Clear" THEN it.n ELSE UIntArg_Enc(0, it.n.max),
     counter |-> it.counter,
     not_exceeded |-> FALSE]

\* The public fields of a SplitNInternal
PublicFields(it) ==
    [split_type |-> it.internal.split_type,
     state |-> Shape(it.internal.state),
     pat |-> Shape(it.internal.pat),
     internal_counter |-> it.internal.counter,
     n |-> IF it.n.kind = "Clear" THEN it.n ELSE UIntArg_Enc(0, it.n.max),
     counter |-> it.counter]

\* What one call of next on a SplitNInternal does in the clear before it
\* returns: the branch of length_checks the search takes (with its answer
\* when that is clear), the views and the alignments it enumerates, and
\* the branches on the call counters.
PublicBranches(it) ==
    LET s == it.internal.state
        p == it.internal.pat
        lc == length_checks(s, p)
        c == contains_cases(s, p)
    IN  [checks |-> [kind |-> lc.kind,
                     val |-> IF lc.kind = "Clear" THEN lc.val ELSE FALSE],
         alignments |-> IF lc.kind = "None"
                        THEN <<Len(c.str_chars), Len(c.pat_chars), c.range, p.padded>>
                        ELSE <<>>,
         advanced |-> it.internal.counter > 0,
         limit |-> IF it.n.kind = "Clear" THEN exceeded(it.n, it.counter) ELSE FALSE]

\* A call of next on a SplitNInternal does in the clear what the same call
\* does on the iterator of the same public fields whose contents are all
\* zero: the same branches and alignments, and a string returned and an
\* iterator left of the same capacities and flags.
AsOnZeroed ==
    (op \in {<<"splitn">>, <<"rsplitn">>} /\ Len(res') = Len(res) + 1) =>
        LET zeroed == ZeroedSplitN(split_iter)
            returned == SplitNInternal_next(zeroed)
        IN  /\ PublicBranches(split_iter) = PublicBranches(zeroed)
            /\ Shape(res'[Len(res')].result) = Shape(returned.result)
            /\ PublicFields(split_iter') = PublicFields(returned.self)

AaaByA ==
    /\ op = <<"split">>
    /\ args = <<FheString(<<97, 97, 97>>, FALSE), FheString(<<97>>, FALSE)>>

\* The j-th call returned the empty string with the given flag
EmptyWithFlag(j, flag) ==
    /\ decrypt_ascii(res[j].result) = <<>>
    /\ res[j].is_some = flag

\* C19 as stated: on the unpadded "aaa" and the unpadded "a", four calls of
\* next on split yield three present empty segments and then an empty string
\* whose present flag is 0.
C19_FourthAbsent ==
    (AaaByA /\ Len(res) >= 4) =>
        /\ \A j \in 1..3 : EmptyWithFlag(j, TRUE)
        /\ EmptyWithFlag(4, FALSE)

\* C19: on the unpadded "aaa" and the unpadded "a", every one of the first
\* four calls of next on split yields a present empty segment (the four
\* segments of "aaa".split("a")), and every later call yields the empty
\* string with present flag 0.
C19_FourPresent ==
    AaaByA =>
        \A j \in 1..Len(res) : EmptyWithFlag(j, j <= 4)

C19_Witness ==
    /\ AaaByA
    /\ Len(res) = 5
    /\ EmptyWithFlag(4, TRUE)
    /\ EmptyWithFlag(5, FALSE)
    /\ StrSplit(Plain(1), Plain(2)) = <<<<>>, <<>>, <<>>, <<>>>>


\* ---- number of present segments

\* The public capacity of the string the iterator was made from
N_s == Len(args[1].chars)

\* The calls made so far that returned present flag 1
PresentCalls == {j \in 1..Len(res) : res[j].is_some}

EmptyAbsent(j) == EmptyWithFlag(j, FALSE)

\* C21 as stated: once a split iterator is exhausted (a call of next has
\* returned present flag 0), that call and every later call return a string
\* that decrypts to the empty string together with present flag 0.
C21_EmptyAfterExhausted ==
    op # <<>> =>
        \A i \in 1..Len(res) : \A j \in i..Len(res) :
            ~res[i].is_some => EmptyAbsent(j)

\* The divergence: split of the unpadded "aa" by "b" returns ("aa", 1) and
\* then, with present flag 0, the string "a" (the remaining state shifted left
\* by the length of the pattern, the index of a failed find being 0).
C21_NonEmptyAbsent ==
    /\ op = <<"split">>
    /\ args = <<FheString(<<97, 97>>, FALSE), FheString(<<98>>, FALSE)>>
    /\ Len(res) = 2
    /\ res[1].is_some /\ decrypt_ascii(res[1].result) = <<97, 97>>
    /\ ~res[2].is_some /\ decrypt_ascii(res[2].result) = <<97>>


\* ---- replace

\* Strings, patterns and replacements of TEST_CASES_REPLACE ("Keese", "abab"
\* and "" with padding 1; "ee", "e" with padding 1, "b", "k", "Keesee";
\* "Keese" with padding 1, "ee", "ab", "K")
ReplaceStrs ==
    {FheString_new(<<75, 101, 101, 115, 101>>, 1),
     FheString_new(<<97, 98, 97, 98>>, 1),
     FheString_new(<<>>, 1)}

ReplaceFroms ==
    {FheString_new(<<101, 101>>, 0),
     FheString_new(<<101>>, 1),
     FheString_new(<<98>>, 0),
     FheString_new(<<107>>, 0),
     FheString_new(<<75, 101, 101, 115, 101, 101>>, 0)}

ReplaceTos ==
    {FheString_new(<<75, 101, 101, 115, 101>>, 1),
     FheString_new(<<101, 101>>, 0),
     FheString_new(<<97, 98>>, 0),
     FheString_new(<<75>>, 0)}

\* Concatenation of two encrypted strings: the characters of the first, then
\* those of the second, then padding
concat(lhs, rhs) ==
    FheString(decrypt_ascii(lhs) \o decrypt_ascii(rhs) \o <<NUL>>, TRUE)

\* The number of calls of next replace makes on the split of s
replace_bound(s) == Len(s.chars) + 2

\* One iteration of replace: the next segment of the split on `from` is
\* joined to the result, after `to` unless it is the first segment
replace_step(it, result, to) ==
    LET returned == SplitInternal_next(it)
        segment == returned.result
    IN  [self |-> returned.self,
         result |-> IF ~returned.is_some THEN result
                    ELSE IF it.counter = 0 THEN concat(result, segment)
                    ELSE concat(concat(result, to), segment)]

InitReplace ==
    /\ str \in ReplaceStrs
    /\ pat \in ReplaceFroms
    /\ op = <<>>
    /\ args = <<>>
    /\ res = <<>>
    /\ split_iter = <<>>

\* replace(str, from, to): the split on `from` is made, the result is empty
Replace ==
    \E to \in ReplaceTos :
        /\ op = <<>>
        /\ op' = <<"replace">>
        /\ args' = <<str, pat, to>>
        /\ split_iter' = split_internal(str, pat, "Split")
        /\ res' = FheString(<<NUL>>, TRUE)
        /\ UNCHANGED <<str, pat>>

NextReplace ==
    /\ op = <<"replace">>
    /\ split_iter.counter < replace_bound(args[1])
    /\ LET stepped == replace_step(split_iter, res, args[3])
       IN  /\ split_iter' = stepped.self
           /\ res' = stepped.result
    /\ UNCHANGED <<str, pat, op, args>>

NextReplaceOp == Replace \/ NextReplace

SpecReplace == InitReplace /\ [][NextReplaceOp]_vars

\* replace has made all its calls of next
Replaced == op = <<"replace">> /\ split_iter.counter = replace_bound(args[1])

\* The segments joined with `to` between them
RECURSIVE StrJoin(_, _)
StrJoin(segments, to) ==
    IF Len(segments) = 0 THEN <<>>
    ELSE IF Len(segments) = 1 THEN segments[1]
    ELSE segments[1] \o to \o StrJoin(Tail(segments), to)

\* str::replace
StrReplace(s, from, to) == StrJoin(StrSplit(s, from), to)

\* replace("Keese" with padding 1, "ee", "Keese" with padding 1)
KeeseByEe ==
    /\ op = <<"replace">>
    /\ args = <<FheString_new(<<75, 101, 101, 115, 101>>, 1),
                FheString_new(<<101, 101>>, 0),
                FheString_new(<<75, 101, 101, 115, 101>>, 1)>>

\* C22 as stated: replace of "ee" by "Keese" in "Keese" decrypts to "Keese",
\* the input unchanged.
C22_Unchanged ==
    (KeeseByEe /\ Replaced) => decrypt_ascii(res) = <<75, 101, 101, 115, 101>>

\* C22: replace(s, from, to) decrypts to the plaintext s.replace(from, to);
\* for s = "Keese" with padding 1, from = "ee" and to = "Keese" with padding 1
\* that is "KKeesese", "ee" occurring in "Keese" at index 1.
C22_Replaced ==
    Replaced =>
        /\ decrypt_ascii(res) = StrReplace(Plain(1), Plain(2), Plain(3))
        /\ KeeseByEe =>
               decrypt_ascii(res) = <<75, 75, 101, 101, 115, 101, 115, 101>>

C22_Witness ==
    /\ KeeseByEe
    /\ Replaced
    /\ find(args[1], args[2]) = [index |-> 1, found |-> TRUE]
    /\ decrypt_ascii(res) = <<75, 75, 101, 101, 115, 101, 115, 101>>


\* ---- the strings the operations return

\* The inputs of the two-string operations and of the trims
InitReturned == Init \/ InitTrim

\* strip_prefix, strip_suffix, split_once, rsplit_once on a string and a pattern
NextStripOrOnce ==
    /\ Len(args) = 0
    /\ (StripPrefix \/ StripSuffix \/ SplitOnce \/ RsplitOnce)

\* The split iterators on a string and a pattern
NextIterators ==
    /\ op = <<>> => Len(args) = 0
    /\ (NextSplitIters \/ NextSplitN)

\* The trims on a string
NextTrims ==
    /\ Len(args) = 1
    /\ NextTrim

NextReturned == NextStripOrOnce \/ NextIterators \/ NextTrims

SpecReturned == InitReturned /\ [][NextReturned]_vars

\* The strings returned by the operation of the current state
ReturnedStrings ==
    IF op = <<>> THEN {}
    ELSE IF op[1] \in {"strip_prefix", "strip_suffix"} THEN {res.string}
    ELSE IF op[1] \in {"split_once", "rsplit_once"} THEN {res.lhs, res.rhs}
    ELSE IF op[1] \in {"trim_start", "trim_end", "trim"} THEN {res}
    ELSE {res[j].result : j \in 1..Len(res)}

\* No character follows a NUL except a NUL
NulsTrailing(s) ==
    \A i \in 1..Len(s.chars) : \A j \in i..Len(s.chars) :
        s.chars[i] = NUL => s.chars[j] = NUL

HasNul(s) == \E i \in 1..Len(s.chars) : s.chars[i] = NUL

\* Well-formed for its flag: the NULs are trailing, an unpadded string has
\* none, and a padded string with room for one ends with a NUL
WellFormed(s) ==
    /\ NulsTrailing(s)
    /\ ~s.padded => ~HasNul(s)
    /\ (s.padded /\ Len(s.chars) > 0) => s.chars[Len(s.chars)] = NUL

\* C23: every string returned by strip_prefix, strip_suffix, trim_start,
\* trim_end, trim, split_once, rsplit_once and by next of every split iterator
\* is well-formed for its flag: its NULs are all trailing, a result flagged
\* unpadded contains no NUL, and a result flagged padded ends with a NUL.
C23_WellFormed == \A s \in ReturnedStrings : WellFormed(s)

\* An unpadded string was shifted by strip_prefix and got its NUL appended
C23_Witness ==
    /\ op = <<"strip_prefix">>
    /\ ~args[1].padded
    /\ res.found
    /\ decrypt_ascii(args[2]) # <<>>
    /\ Len(res.string.chars) = Len(args[1].chars) + 1
    /\ res.string.padded
    /\ HasNul(res.string)
    /\ decrypt_ascii(res.string) # <<>>


\* ---- left_shift_chars and right_shift_chars on their own

\* Character counts given to the shifts: every count up to one past the
\* largest capacity, and counts whose bit amount 8*k is a multiple of 2^8 or
\* of 2^16
ShiftCounts == (0..(MaxStrLen + MaxPad + 1)) \cup {32, 64, 8192, 65535}

InitShift ==
    /\ str \in {s \in Encryptions(Letters, MaxStrLen) : Len(s.chars) >= 1}
    /\ pat = FheString_empty
    /\ op = <<>>
    /\ args = <<>>
    /\ res = <<>>
    /\ split_iter = <<>>

\* One call of a shift with the count k
Shift(name, k, value) ==
    /\ op = <<>>
    /\ op' = <<name>>
    /\ args' = <<str, k>>
    /\ res' = value
    /\ UNCHANGED <<str, pat, split_iter>>

LeftShiftChars ==
    \E k \in ShiftCounts : Shift("left_shift_chars", k, left_shift_chars(str, k))

RightShiftChars ==
    \E k \in ShiftCounts : Shift("right_shift_chars", k, right_shift_chars(str, k))

NextShift == LeftShiftChars \/ RightShiftChars

SpecShift == InitShift /\ [][NextShift]_vars

\* The characters of chars moved k places to the left (to the right for a
\* negative k), NULs filled in
MovedBy(chars, k) ==
    [i \in 1..Len(chars) |->
        IF i + k >= 1 /\ i + k <= Len(chars) THEN chars[i + k] ELSE NUL]

\* C24 as stated: a shift of a string of capacity N >= 1 by the count k
\* returns the all-NUL string of capacity N whenever k >= N, and the string
\* moved by exactly k characters with NULs filled in when k < N.
C24_Saturates ==
    op # <<>> =>
        LET chars == args[1].chars
            k == args[2]
        IN  res.chars = IF k >= Len(chars) THEN Nulls(Len(chars))
                        ELSE IF op = <<"left_shift_chars">> THEN MovedBy(chars, k)
                        ELSE MovedBy(chars, 0 - k)

\* The divergence: "a" of capacity 1 shifted left by k = 32 comes back
\* unchanged, 8 * 32 = 256 being 0 in the 8 bits of the packed string
C24_Wrapped ==
    /\ op = <<"left_shift_chars">>
    /\ args = <<FheString(<<97>>, FALSE), 32>>
    /\ res.chars = <<97>>


\* ---- conditional_string on its own

\* One call of conditional_string on two strings, in either order
ConditionalString ==
    \E condition \in BOOLEAN : \E o \in {<<str, pat>>, <<pat, str>>} :
        /\ op = <<>>
        /\ op' = <<"conditional_string">>
        /\ args' = <<condition, o[1], o[2]>>
        /\ res' = conditional_string(condition, o[1], o[2])
        /\ UNCHANGED <<str, pat, split_iter>>

NextSelect == ConditionalString

SpecSelect == Init /\ [][NextSelect]_vars

Max(a, b) == IF a >= b THEN a ELSE b

LengthChecks ==
    /\ op = <<>>
    /\ op' = <<"length_checks">>
    /\ args' = <<str, pat>>
    /\ res' = length_checks(str, pat)
    /\ UNCHANGED <<str, pat, split_iter>>

NextLengthChecks == LengthChecks

SpecLengthChecks == Init /\ [][NextLengthChecks]_vars

\* A string known to be empty from its shape: capacity 0, or padded with
\* capacity 1
EmptyByShape(s) == Len(s.chars) = 0 \/ (s.padded /\ Len(s.chars) = 1)

\* The kind of answer the shapes of the string and of the pattern call for
KindByShape(s, p) ==
    IF EmptyByShape(p) THEN "Clear"
    ELSE IF EmptyByShape(s) THEN (IF p.padded THEN "Cipher" ELSE "Clear")
    ELSE IF ~p.padded /\ ~s.padded /\ Len(p.chars) > Len(s.chars) THEN "Clear"
    ELSE IF ~p.padded /\ s.padded /\ Len(p.chars) >= Len(s.chars) THEN "Clear"
    ELSE "None"

\* C26: length_checks answers from the public shapes (Clear(true) for a
\* pattern empty by shape; else, for a string empty by shape, Cipher(is_empty
\* (pat)) for a padded pattern and Clear(false) for an unpadded one; else
\* Clear(false) for an unpadded pattern longer than an unpadded string or at
\* least as long as a padded one; else None), and every Clear or Cipher answer
\* equals the plaintext contains, starts_with and ends_with.
C26_LengthChecks ==
    op = <<"length_checks">> =>
        LET s == args[1]
            p == args[2]
        IN  /\ res.kind = KindByShape(s, p)
            /\ EmptyByShape(p) => res.val
            /\ (res.kind = "Clear" /\ ~EmptyByShape(p)) => ~res.val
            /\ res.kind = "Cipher" => res.val = (decrypt_ascii(p) = <<>>)
            /\ res.kind # "None" =>
                   /\ res.val = StrContains(Plain(1), Plain(2))
                   /\ res.val = StrStartsWith(Plain(1), Plain(2))
                   /\ res.val = StrEndsWith(Plain(1), Plain(2))

\* An unpadded pattern as long as the capacity of a padded string that holds
\* characters: Clear(false)
C26_Witness ==
    /\ op = <<"length_checks">>
    /\ args[1].padded /\ ~args[2].padded
    /\ Len(args[1].chars) = Len(args[2].chars)
    /\ Len(Plain(1)) >= 1
    /\ Take(Plain(2), Len(Plain(1))) = Plain(1)
    /\ res = [kind |-> "Clear", val |-> FALSE]


\* ---- splitn and rsplitn with n = 0

\* `clear_n - 1` on u16 for clear_n = 0: the subtraction overflows
overflows(n) == n.kind = "Clear" /\ n.val = 0

SplitNZero ==
    \E arg \in {UIntArg_Clear(0), UIntArg_Enc(0, MaxN)} :
        Construct("splitn", <<str, pat, arg>>,
                  splitn_internal(str, pat, arg, "Split"))

RsplitNZero ==
    \E arg \in {UIntArg_Clear(0), UIntArg_Enc(0, MaxN)} :
        Construct("rsplitn", <<str, pat, arg>>,
                  splitn_internal(str, pat, arg, "RSplit"))

\* next in a build where the overflowing subtraction wraps (and every call
\* for an encrypted n, whose n - 1 is homomorphic and wraps)
NextSplitNWrapped ==
    /\ op \in {<<"splitn">>, <<"rsplitn">>}
    /\ Len(res) < MaxCallsN
    /\ Returned(SplitNInternal_next(split_iter))

\* next in a build with overflow checks: `clear_n - 1` panics ("attempt to
\* subtract with overflow") and the call does not return
NextSplitNPanic ==
    /\ op \in {<<"splitn">>, <<"rsplitn">>}
    /\ Len(res) < MaxCallsN
    /\ overflows(split_iter.n)
    /\ op' = Append(op, "panic")
    /\ UNCHANGED <<str, pat, args, res, split_iter>>

NextSplitNZero ==
    \/ SplitNZero
    \/ RsplitNZero
    \/ NextSplitNWrapped
    \/ NextSplitNPanic

SpecSplitNZero == InitSplit /\ [][NextSplitNZero]_vars

\* C27 as stated: for n = 0, clear or encrypted, every call of next on
\* splitn and rsplitn completes normally and returns present flag 0.
C27_NoSegmentForZero ==
    (op # <<>> /\ args[3].val = 0) =>
        /\ Len(op) = 1
        /\ \A j \in 1..Len(res) : ~res[j].is_some

\* The divergence: the first call of next on splitn(s, p, Clear(0)) aborts
C27_Overflow ==
    /\ op = <<"splitn", "panic">>
    /\ args[3] = UIntArg_Clear(0)
    /\ split_iter.counter = 0
    /\ res = <<>>


\* ---- unsigned subtractions and slices

\* ServerKey::ends_with_cases, the values of its usize subtractions
\* (str_len - pat_len, str_len - 1, (str_len - 1) - pat_len, pat_len - 1,
\* str_len - (pat_len - 1)) in the branch taken
ends_with_cases_subs(s, p) ==
    LET pat_len == Len(p.chars)
        str_len == Len(s.chars)
    IN  IF ~s.padded /\ ~p.padded THEN {str_len - pat_len}
        ELSE IF s.padded /\ ~p.padded
        THEN {str_len - 1, (str_len - 1) - pat_len}
        ELSE IF ~s.padded /\ p.padded
        THEN (IF pat_len - 1 > str_len THEN {pat_len - 1}
              ELSE {pat_len - 1, str_len - (pat_len - 1)})
        ELSE {}

\* ServerKey::contains_cases, the values of its usize subtractions
contains_cases_subs(s, p) ==
    LET pat_len == Len(p.chars)
        str_len == Len(s.chars)
    IN  IF ~p.padded
        THEN {str_len - pat_len,
              (str_len - pat_len) - (IF s.padded THEN 1 ELSE 0)}
        ELSE IF s.padded THEN {pat_len - 1, str_len - 1}
        ELSE {pat_len - 1}

\* ServerKey::eq, the values of rhs_len - 1 and lhs_len - 1 where they are
\* evaluated (behind !lhs.is_padded() and !rhs.is_padded())
eq_subs(lhs, rhs) ==
    (IF ~lhs.padded THEN {Len(rhs.chars) - 1} ELSE {})
        \cup (IF ~rhs.padded THEN {Len(lhs.chars) - 1} ELSE {})

\* ServerKey::starts_with, the value of pat_len - 1 for a padded pattern
starts_with_subs(s, p) == IF p.padded THEN {Len(p.chars) - 1} ELSE {}

\* Every start index enumerated is at most the length of the string view
StartsInView(cases) ==
    \A k \in 1..Len(cases.range) : cases.range[k] <= Len(cases.str_chars)

\* C28: when length_checks (eq_length_checks for eq) does not answer, no
\* usize subtraction of eq, starts_with, contains_cases and ends_with_cases
\* goes below zero, every start index enumerated is at most the length of the
\* string view, and every slice compare_shifted_strip mutates lies inside the
\* stripped string.
C28_InRange ==
    op # <<>> =>
        LET s == args[1]
            p == args[2]
        IN  /\ ~eq_length_checks(s, p).some =>
                   \A d \in eq_subs(s, p) : d >= 0
            /\ length_checks(s, p).kind = "None" =>
                   /\ \A d \in starts_with_subs(s, p) : d >= 0
                   /\ \A d \in contains_cases_subs(s, p) : d >= 0
                   /\ \A d \in ends_with_cases_subs(s, p) : d >= 0
                   /\ StartsInView(contains_cases(s, p))
                   /\ StartsInView(ends_with_cases(s, p))
                   /\ ~strip_suffix(s, p).panic

\* The pre-checks do not answer and a subtraction is at its limit: an
\* unpadded pattern one shorter than the capacity of a padded string
C28_Witness ==
    /\ op = <<"strip_suffix">>
    /\ length_checks(args[1], args[2]).kind = "None"
    /\ ~eq_length_checks(args[1], args[2]).some
    /\ args[1].padded /\ ~args[2].padded
    /\ 0 \in contains_cases_subs(args[1], args[2])
    /\ 0 \in ends_with_cases_subs(args[1], args[2])
    /\ res.found /\ ~res.panic



\* ---- next called more often than the call counter can count

\* u16::MAX, the largest value of `counter: u16` in SplitInternal
CounterMax == Pow2(16) - 1

\* How many of the latest calls of next res keeps in a long run
Window == 2

LongRunStrs == {FheString_new(<<97>>, 0)}

LongRunPats == {FheString_new(<<>>, 0), FheString_new(<<97>>, 0)}

InitLongRun ==
    /\ str \in LongRunStrs
    /\ pat \in LongRunPats
    /\ op = <<>>
    /\ args = <<>>
    /\ res = <<>>
    /\ split_iter = <<>>

\* The latest Window entries of a sequence
Latest(s) ==
    IF Len(s) <= Window THEN s ELSE SubSeq(s, Len(s) - Window + 1, Len(s))

\* One call of next in a long run: res keeps the latest calls only
ReturnedLatest(r) ==
    LET returned == r
    IN  /\ split_iter' = returned.self
        /\ res' = Latest(Append(res, [result |-> returned.result,
                                      is_some |-> returned.is_some]))
        /\ UNCHANGED <<str, pat, op, args>>

\* SplitInternal::next, any call; at counter = u16::MAX this is a build
\* without overflow checks, where `self.counter += 1` wraps to 0
NextCounterWrapped ==
    /\ op \in {<<"split">>, <<"rsplit">>}
    /\ ReturnedLatest(SplitInternal_next(split_iter))

\* SplitInternal::next at counter = u16::MAX in a build with overflow
\* checks: `self.counter += 1` panics ("attempt to add with overflow") and
\* the call does not return
NextCounterPanic ==
    /\ op \in {<<"split">>, <<"rsplit">>}
    /\ split_iter.counter = CounterMax
    /\ op' = Append(op, "panic")
    /\ UNCHANGED <<str, pat, args, res, split_iter>>

NextLongRun ==
    \/ Split
    \/ Rsplit
    \/ NextCounterWrapped
    \/ NextCounterPanic

SpecLongRun == InitLongRun /\ [][NextLongRun]_vars

\* C29 as stated: every call of next on a split iterator returns, and once
\* a call has returned present flag 0 every later call returns present
\* flag 0, however many calls are made.
C29_Monotone ==
    (op # <<>>) =>
        /\ Len(op) = 1
        /\ \A i \in 1..Len(res) : \A j \in i..Len(res) :
               ~res[i].is_some => ~res[j].is_some

\* The divergence: after the call counter has wrapped, next on
\* "a".split("") returns present flag 1 again, after calls that returned 0
C29_Rematch ==
    /\ op = <<"split">>
    /\ Plain(1) = <<97>> /\ Plain(2) = <<>>
    /\ Len(res) = Window
    /\ ~res[Window - 1].is_some
    /\ res[Window].is_some


\* ---- the state a split iterator keeps

\* The SplitInternal of a split iterator: the iterator itself for split and
\* rsplit, its field `internal` for the others
SplitInternalOf(it) == IF "internal" \in DOMAIN it THEN it.internal ELSE it

\* The capacity of the remaining state over the source string s
RemainingCapacity(s) == IF s.padded THEN Len(s.chars) ELSE Len(s.chars) + 1

\* After at least one call of next: the remaining state is well-formed,
\* flagged padded and of the capacity above, the stored pattern is the one
\* given, and the strings given to the constructor are as they were
C30_Remaining ==
    (Len(op) = 1 /\ Len(res) >= 1) =>
        LET it == SplitInternalOf(split_iter)
        IN  /\ WellFormed(it.state)
            /\ it.state.padded
            /\ Len(it.state.chars) = RemainingCapacity(args[1])
            /\ it.pat = args[2]
            /\ args[1] = str /\ args[2] = pat

\* The call counter is 0 after construction (1 for rsplit_terminator, whose
\* constructor makes the first call in advance)
C30_CountsFromZero ==
    (Len(op) = 1 /\ res = <<>>) =>
        SplitInternalOf(split_iter).counter =
            IF op = <<"rsplit_terminator">> THEN 1 ELSE 0

\* A call of next that returns adds one to the call counter
C30_CountsOne ==
    (Len(op) = 1 /\ op' = op) =>
        SplitInternalOf(split_iter').counter =
            SplitInternalOf(split_iter).counter + 1

\* C30 as stated: after any number of calls of next the remaining state is
\* a well-formed padded string of capacity N_s (padded source) or N_s + 1
\* (unpadded source), the call counter is the number of calls made, the
\* stored pattern is unchanged and the source string and pattern are not
\* modified.
C30_IteratorState ==
    /\ [](C30_Remaining /\ C30_CountsFromZero)
    /\ [][C30_CountsOne]_vars

\* The divergence: call 65536 of next on "a".rsplit(p) leaves the call
\* counter at 0
C30_CounterWrapped ==
    /\ op = <<"rsplit">>
    /\ Len(res) = Window
    /\ split_iter.counter = 0

====
